---------------------------- MODULE Spec2Model ----------------------------
(***************************************************************************)
(* Model of the agentic control loops of rag-scrap-agent:                  *)
(*   - unified_agent.py        (THINK/ACT/OBSERVE/SYNTHESIZE/VERIFY loop)  *)
(*   - rag/agentic_rag_graph.py (plan/retrieve/synthesize/verify/refine)   *)
(*   - web_graph/web_search_graph.py (plan/search/synthesize/verify/refine)*)
(*   - rag/qa_processor.py     (draft + defensive verification parsing)    *)
(*                                                                         *)
(* Python strings are modelled exactly as run-length encoded character     *)
(* sequences (a sequence of <<character, count>> runs, adjacent runs of    *)
(* different characters), Python dicts as functions whose DOMAIN is the    *)
(* set of keys present, and a LangGraph state update as the override of    *)
(* the state dict by the dict a node returns.                              *)
(***************************************************************************)
EXTENDS Integers, Sequences, FiniteSets, TLC

(***************************************************************************)
(* Bounds of the model                                                     *)
(***************************************************************************)
\* largest max_iter / max_refine a caller passes
MaxIterBound == 2
\* number of rounds in which the tools and the model answer freely; in later
\* rounds every call repeats the outcome of the round before
FreeRounds == 2

(***************************************************************************)
(* Strings                                                                 *)
(***************************************************************************)
NL == "\n"
Whitespace == {" ", NL}

EmptyStr == << >>

\* n copies of the character c
Rep(c, n) == IF n <= 0 THEN EmptyStr ELSE << <<c, n>> >>

RECURSIVE StrLen(_)
\* len(s)
StrLen(s) ==
    IF s = << >> THEN 0
    ELSE IF Len(s) = 1 THEN s[1][2]
    ELSE LET mid == Len(s) \div 2
         IN  StrLen(SubSeq(s, 1, mid)) + StrLen(SubSeq(s, mid + 1, Len(s)))

\* a + b
Concat(a, b) ==
    IF a = << >> THEN b
    ELSE IF b = << >> THEN a
    ELSE IF a[Len(a)][1] = b[1][1]
         THEN SubSeq(a, 1, Len(a) - 1)
              \o << <<b[1][1], a[Len(a)][2] + b[1][2]>> >>
              \o Tail(b)
         ELSE a \o b

RECURSIVE Take(_, _)
\* s[:n] for n >= 0
Take(s, n) ==
    IF n <= 0 \/ s = << >> THEN << >>
    ELSE IF Len(s) = 1 THEN << <<s[1][1], IF s[1][2] >= n THEN n ELSE s[1][2]>> >>
    ELSE LET mid == Len(s) \div 2
             head == SubSeq(s, 1, mid)
             rest == SubSeq(s, mid + 1, Len(s))
         IN  IF StrLen(head) >= n THEN Take(head, n)
             ELSE head \o Take(rest, n - StrLen(head))

RECURSIVE LStrip(_)
LStrip(s) ==
    IF s = << >> THEN s
    ELSE IF s[1][1] \in Whitespace THEN LStrip(Tail(s))
    ELSE s

RECURSIVE RStrip(_)
RStrip(s) ==
    IF s = << >> THEN s
    ELSE IF s[Len(s)][1] \in Whitespace THEN RStrip(SubSeq(s, 1, Len(s) - 1))
    ELSE s

\* s.strip()
Strip(s) == RStrip(LStrip(s))

\* s.startswith(p)
StartsWith(s, p) == StrLen(p) <= StrLen(s) /\ Take(s, StrLen(p)) = p

RECURSIVE Join(_, _)
\* sep.join(parts)
Join(sep, parts) ==
    IF parts = << >> THEN EmptyStr
    ELSE IF Len(parts) = 1 THEN parts[1]
    ELSE Concat(Concat(parts[1], sep), Join(sep, Tail(parts)))

(***************************************************************************)
(* Dicts and JSON values                                                   *)
(***************************************************************************)
EmptyDict == [k \in {} |-> 0]

\* d.get(k, default)
Get(d, k, default) == IF k \in DOMAIN d THEN d[k] ELSE default

\* the state after a node returned the partial state r
Update(s, r) ==
    [k \in (DOMAIN s) \cup (DOMAIN r) |-> IF k \in DOMAIN r THEN r[k] ELSE s[k]]

\* JSON values other than objects
JNull == [t |-> "null"]
JStr(s) == [t |-> "str", s |-> s]
JNum(n) == [t |-> "num", n |-> n]

\* bool(v)
Truthy(v) ==
    CASE v.t = "null" -> FALSE
      [] v.t = "str"  -> v.s # EmptyStr
      [] v.t = "num"  -> v.n # 0

\* str(v) of a string or of a one-digit number
PyStr(v) ==
    CASE v.t = "str"  -> v.s
      [] v.t = "num"  -> Rep(ToString(v.n), 1)
      [] v.t = "null" -> <<<<"N", 1>>, <<"o", 1>>, <<"n", 1>>, <<"e", 1>>>>


\* the characters of a word, one run each
RECURSIVE FromChars(_)
FromChars(cs) == IF cs = << >> THEN EmptyStr ELSE Concat(Rep(cs[1], 1), FromChars(Tail(cs)))

RECURSIVE Expand(_)
\* the characters of s, one by one
Expand(s) ==
    IF s = << >> THEN << >>
    ELSE [i \in 1..s[1][2] |-> s[1][1]] \o Expand(Tail(s))

LowerTable ==
    [A |-> "a", B |-> "b", C |-> "c", D |-> "d", E |-> "e", F |-> "f", G |-> "g",
     H |-> "h", I |-> "i", J |-> "j", K |-> "k", L |-> "l", M |-> "m", N |-> "n",
     O |-> "o", P |-> "p", Q |-> "q", R |-> "r", S |-> "s", T |-> "t", U |-> "u",
     V |-> "v", W |-> "w", X |-> "x", Y |-> "y", Z |-> "z"]

\* s.lower(), as a sequence of characters
LowerChars(s) ==
    LET cs == Expand(s)
    IN  [i \in 1..Len(cs) |-> IF cs[i] \in DOMAIN LowerTable THEN LowerTable[cs[i]] ELSE cs[i]]

\* word in chars
ContainsWord(chars, word) ==
    \E i \in 1..(Len(chars) - Len(word) + 1) : SubSeq(chars, i, i + Len(word) - 1) = word

(***************************************************************************)
(* unified_agent.py: constants                                             *)
(***************************************************************************)
\* OBSERVE: a context shorter than this is insufficient
MinContextLength == 200
\* ACT: cap of the merged context
ContextCap == 16000
\* THINK: length of the excerpt of the verifier's reasons
ReasonsExcerpt == 120
\* should_refine: consecutive failures that force FINALIZE
FailureLimit == 3
\* recursion_limit passed to agent.invoke: supersteps LangGraph runs before it
\* raises GraphRecursionError
RecursionLimit == 50

RecencyCues ==
    { <<"a","c","t","u","e","l">>, <<"r","é","c","e","n","t">>,
      <<"a","u","j","o","u","r","d","'","h","u","i">>,
      <<"l","a","t","e","s","t">>, <<"n","e","w","s">>,
      <<"c","u","r","r","e","n","t">> }

\* " (focus: " and ")"
FocusOpen == FromChars(<<" ", "(", "f", "o", "c", "u", "s", ":", " ">>)
FocusClose == FromChars(<<")">>)

\* "[WEB SEARCH RESULTS]\n": the 20 characters of the label as one run of the
\* label character, then the newline
WebLabel == Concat(Rep("W", 20), Rep(NL, 1))
\* "[DOCUMENTS]\n"
DocLabel == Concat(Rep("D", 11), Rep(NL, 1))
\* "\n\n==========\n\n"
ContextSeparator == Concat(Concat(Rep(NL, 2), Rep("=", 10)), Rep(NL, 2))

\* the fixed answers of node_synthesize, each a run of its own character
NoInfoAnswer == Rep("J", 75)
GenerationError == Rep("G", 20)
SynthesizeError == Rep("X", 43)

(***************************************************************************)
(* unified_agent.py: nodes.  Each node is a function of the state (and of  *)
(* the outcome of the calls it makes) to the partial state it returns.     *)
(***************************************************************************)
\* f"{query} (focus: {reasons[:120]})" or query; reasons is a string or null
ExpandQuery(query, reasons) ==
    IF Truthy(reasons)
    THEN Concat(Concat(Concat(query, FocusOpen), Take(reasons.s, ReasonsExcerpt)), FocusClose)
    ELSE query

\* node_think matching the cues against the query as typed
ThinkStrategy_CaseSensitive(query, has_files) ==
    IF has_files
    THEN IF \E w \in RecencyCues : ContainsWord(Expand(query), w)
         THEN "hybrid" ELSE "documents"
    ELSE "web"

ThinkStrategy(query, has_files) ==
    IF has_files
    THEN IF \E w \in RecencyCues : ContainsWord(LowerChars(query), w)
         THEN "hybrid" ELSE "documents"
    ELSE "web"

node_think(state) ==
    LET steps == Get(state, "steps", << >>)
        query == state["query"]
        iter_count == Get(state, "iter", 0)
    IN  IF iter_count = 0
        THEN LET strategy == ThinkStrategy(query, Get(state, "has_files", FALSE))
             IN  [working_query |-> query,
                  search_strategy |-> strategy,
                  iter |-> 0,
                  steps |-> Append(steps, "THINK: " \o strategy \o " strategy")]
        ELSE LET verification == Get(state, "verification", EmptyDict)
                 reasons == Get(verification, "reasons", JStr(EmptyStr))
             IN  [working_query |-> ExpandQuery(query, reasons),
                  iter |-> iter_count,
                  steps |-> Append(steps, "RETHINK (iter " \o ToString(iter_count) \o ")")]

\* [x for x in xs] + ys
Extend(xs, ys) == xs \o ys

\* the part of node_act that calls web_search; acc is [steps, web_results,
\* all_sources, contexts]
ActWeb(acc, web) ==
    LET s1 == Append(acc.steps, "ACT: Calling web_search() tool")
    IN  IF web.kind = "raise"
        THEN [acc EXCEPT !.steps = Append(s1, "web_search failed")]
        ELSE LET r == web.response
                 results == Get(r, "results", << >>)
                 ctx == Get(r, "context", EmptyStr)
             IN  [steps |-> Append(s1, "web_search: " \o ToString(Len(results)) \o " results"),
                  web_results |-> results,
                  doc_results |-> acc.doc_results,
                  all_sources |-> Extend(acc.all_sources, Get(r, "sources", << >>)),
                  contexts |-> IF ctx # EmptyStr
                               THEN Append(acc.contexts, Concat(WebLabel, ctx))
                               ELSE acc.contexts]

\* the part of node_act that calls retrieve_knowledge
ActDocs(acc, doc) ==
    LET s1 == acc.steps
    IN  IF doc.kind = "raise"
        THEN [acc EXCEPT !.steps = Append(s1, "document_search failed")]
        ELSE LET r == doc.response
                 results == Get(r, "results", << >>)
                 ctx == Get(r, "context", EmptyStr)
             IN  [steps |-> Append(s1, "document_search: " \o ToString(Len(results)) \o " chunks"),
                  web_results |-> acc.web_results,
                  doc_results |-> results,
                  all_sources |-> Extend(acc.all_sources, Get(r, "sources", << >>)),
                  contexts |-> IF ctx # EmptyStr
                               THEN Append(acc.contexts, Concat(DocLabel, ctx))
                               ELSE acc.contexts]

\* web and doc are the outcomes of the two tools: kind "ok" with the response
\* dict, kind "raise" when the call raises, and for doc kind "init_raise" when
\* EmbeddingProcessor() itself raises (outside the inner try)
node_act(state, web, doc) ==
    LET steps == Get(state, "steps", << >>)
        strategy == Get(state, "search_strategy", "web")
        acc0 == [steps |-> steps, web_results |-> << >>, doc_results |-> << >>,
                 all_sources |-> << >>, contexts |-> << >>]
        acc1 == IF strategy \in {"web", "hybrid"} THEN ActWeb(acc0, web) ELSE acc0
        docs == strategy \in {"documents", "hybrid"}
        called == [acc1 EXCEPT !.steps = Append(acc1.steps, "ACT: Calling document_search() tool")]
    IN  IF docs /\ doc.kind = "init_raise"
        THEN \* the outer except
             [web_results |-> << >>, doc_results |-> << >>, all_sources |-> << >>,
              context |-> EmptyStr, steps |-> Append(called.steps, "ACT failed")]
        ELSE LET acc2 == IF docs THEN ActDocs(called, doc) ELSE acc1
             IN  [web_results |-> acc2.web_results,
                  doc_results |-> acc2.doc_results,
                  all_sources |-> acc2.all_sources,
                  context |-> Take(Join(ContextSeparator, acc2.contexts), ContextCap),
                  steps |-> acc2.steps]

\* node_observe resetting the counter on every sufficient context
node_observe_ResetAlways(state) ==
    LET context == Get(state, "context", EmptyStr)
        insufficient == Strip(context) = EmptyStr \/ StrLen(context) < MinContextLength
    IN  [steps |-> Append(Get(state, "steps", << >>), "OBSERVE"),
         consecutive_failures |-> IF insufficient
                                  THEN Get(state, "consecutive_failures", 0) + 1
                                  ELSE 0,
         last_context_length |-> StrLen(Strip(context))]

\* node_observe resetting the counter whenever the context grew, sufficient or not
node_observe_ResetOnGrowth(state) ==
    LET context == Get(state, "context", EmptyStr)
        insufficient == Strip(context) = EmptyStr \/ StrLen(context) < MinContextLength
        grew == StrLen(Strip(context)) > Get(state, "last_context_length", 0)
    IN  [steps |-> Append(Get(state, "steps", << >>), "OBSERVE"),
         consecutive_failures |-> IF grew THEN 0
                                  ELSE IF insufficient
                                  THEN Get(state, "consecutive_failures", 0) + 1
                                  ELSE Get(state, "consecutive_failures", 0),
         last_context_length |-> StrLen(Strip(context))]

node_observe(state) ==
    LET steps == Get(state, "steps", << >>)
        context == Get(state, "context", EmptyStr)
        web_count == Len(Get(state, "web_results", << >>))
        doc_count == Len(Get(state, "doc_results", << >>))
        consecutive_failures == Get(state, "consecutive_failures", 0)
        last_context_length == Get(state, "last_context_length", 0)
        current_context_length == StrLen(Strip(context))
    IN  IF Strip(context) = EmptyStr \/ StrLen(context) < MinContextLength
        THEN [steps |-> Append(steps, IF Strip(context) = EmptyStr
                                      THEN "OBSERVE: No context found"
                                      ELSE "OBSERVE: Insufficient context"),
              consecutive_failures |-> consecutive_failures + 1,
              last_context_length |-> current_context_length]
        ELSE [steps |-> Append(steps, "OBSERVE: Valid context (" \o ToString(web_count)
                                      \o " web, " \o ToString(doc_count) \o " docs)"),
              consecutive_failures |-> IF current_context_length > last_context_length
                                       THEN 0 ELSE consecutive_failures,
              last_context_length |-> current_context_length]

(***************************************************************************)
(* rag/qa_processor.py                                                     *)
(*                                                                         *)
(* A text returned by the verifier model is described by what find, rfind  *)
(* and json.loads make of it: braces says that it holds a "{" before a     *)
(* "}", valid that the payload handed to json.loads parses, and value is   *)
(* the parsed value: JObj(d) for an object, or JNull, JStr, JNum, JList.   *)
(***************************************************************************)
JObj(d) == [t |-> "obj", d |-> d]
JList == [t |-> "list"]

IsDict(v) == v.t = "obj"

DefaultDecision ==
    JObj([verdict |-> "pass", reasons |-> JStr(EmptyStr), revised_answer |-> JNull])

\* lines 165-176 of answer_question, lines 138-145 of web node_verify
ParseDecision(text) == IF text.valid THEN text.value ELSE DefaultDecision

QAFailure == [success |-> FALSE, answer |-> EmptyStr, metadata |-> EmptyDict]

\* revised and isinstance(revised, str) and revised.strip()
UsableRevision(revised) == revised.t = "str" /\ Strip(revised.s) # EmptyStr

\* llm is the outcome of the two model calls: draft and verify are each
\* [kind |-> "raise"] or [kind |-> "ok", text |-> ...]
answer_question(context, llm) ==
    IF Strip(context) = EmptyStr THEN QAFailure
    ELSE IF llm.draft.kind = "raise" \/ llm.verify.kind = "raise" THEN QAFailure
    ELSE LET draft_answer == llm.draft.text
             decision == ParseDecision(llm.verify.text)
             revise == IsDict(decision) /\ Get(decision.d, "verdict", "none") = "revise"
             revised == Get(decision.d, "revised_answer", JNull)
             final_answer == IF revise /\ UsableRevision(revised)
                             THEN Strip(revised.s)
                             ELSE Strip(draft_answer)
         IN  \* line 184: decision.get(...) raises on a decision that is no dict
             IF ~IsDict(decision) THEN QAFailure
             ELSE [success |-> TRUE,
                   answer |-> final_answer,
                   metadata |-> [verification |-> decision.d]]

\* qa is [kind |-> "init_raise"] when importing or constructing QAProcessor
\* raises, else [kind |-> "ok", llm |-> ...]
node_synthesize(state, qa) ==
    LET steps == Get(state, "steps", << >>)
        context == Get(state, "context", EmptyStr)
    IN  IF Strip(context) = EmptyStr
        THEN [draft_answer |-> NoInfoAnswer,
              steps |-> Append(steps, "SYNTHESIZE: No context")]
        ELSE IF qa.kind = "init_raise"
        THEN [draft_answer |-> SynthesizeError,
              steps |-> Append(steps, "SYNTHESIZE failed")]
        ELSE LET qa_result == answer_question(context, qa.llm)
             IN  [draft_answer |-> IF qa_result.success THEN qa_result.answer
                                   ELSE GenerationError,
                  verification |-> Get(qa_result.metadata, "verification", EmptyDict),
                  steps |-> Append(steps, "SYNTHESIZE: Response generated via QAProcessor")]

node_verify(state) ==
    LET steps == Get(state, "steps", << >>)
        verification == Get(state, "verification", EmptyDict)
        verdict == Get(verification, "verdict", "pass")
    IN  [steps |-> Append(steps, "VERIFY: verdict = " \o verdict)]

\* revised and str(revised).strip()
FinalizeRevision(revised) == Truthy(revised) /\ Strip(PyStr(revised)) # EmptyStr

node_finalize(state) ==
    LET steps == Get(state, "steps", << >>)
        verification == Get(state, "verification", EmptyDict)
        draft == Get(state, "draft_answer", EmptyStr)
    IN  IF Get(verification, "verdict", "none") = "revise"
        THEN LET revised == Get(verification, "revised_answer", JNull)
             IN  IF FinalizeRevision(revised)
                 THEN [final_answer |-> Strip(PyStr(revised)),
                       steps |-> Append(steps, "FINALIZE: Revision applied")]
                 ELSE [final_answer |-> draft,
                       steps |-> Append(steps, "FINALIZE: Keeping draft (no valid revision)")]
        ELSE [final_answer |-> draft,
              steps |-> Append(steps, "FINALIZE: Draft validated")]

\* should_refine without the safety limit on consecutive failures
should_refine_NoSafety(state) ==
    IF Get(Get(state, "verification", EmptyDict), "verdict", "none") = "revise"
       /\ Get(state, "iter", 0) < Get(state, "max_iter", 1)
    THEN "rethink"
    ELSE "finalize"

should_refine(state) ==
    LET verification == Get(state, "verification", EmptyDict)
        iter_count == Get(state, "iter", 0)
        max_iter == Get(state, "max_iter", 1)
        consecutive_failures == Get(state, "consecutive_failures", 0)
    IN  IF consecutive_failures >= FailureLimit THEN "finalize"
        ELSE IF Get(verification, "verdict", "none") = "revise" /\ iter_count < max_iter
        THEN "rethink"
        ELSE "finalize"

\* the dict run_unified_agent returns from the final state
UnifiedResult(final_state) ==
    LET strategy == Get(final_state, "search_strategy", "web")
    IN  [answer |-> Get(final_state, "final_answer", EmptyStr),
         sources |-> Get(final_state, "all_sources", << >>),
         verification |-> Get(final_state, "verification", EmptyDict),
         iterations |-> Get(final_state, "iter", 0),
         steps |-> Get(final_state, "steps", << >>),
         mode |-> CASE strategy = "web" -> "web"
                    [] strategy = "documents" -> "rag"
                    [] strategy = "hybrid" -> "hybrid"
                    [] OTHER -> "unknown"]

\* initial_state of run_unified_agent
UnifiedInitialState(query, has_files, max_iter) ==
    [query |-> query, has_files |-> has_files, file_ids |-> << >>, iter |-> 0,
     max_iter |-> max_iter, steps |-> << >>, consecutive_failures |-> 0,
     last_context_length |-> 0]

(***************************************************************************)
(* The environment: what the tools and the model return                    *)
(***************************************************************************)
\* a context of n characters that ends, as the tools' contexts do, in a
\* separator line and two newlines
\* the length of a tool context longer than ContextCap
LongContext == ContextCap + 500

ToolContext(n) == Concat(Concat(Rep("a", n - 5), Rep("-", 3)), Rep(NL, 2))
\* a few characters followed by a long run of newlines
PaddedContext == Concat(Rep("a", 5), Rep(NL, 200))

Raise == [kind |-> "raise"]
InitRaise == [kind |-> "init_raise"]
Ok(response) == [kind |-> "ok", response |-> response]

WebOutcomes ==
    { Raise,
      Ok([results |-> <<"w1">>, sources |-> <<"w1">>, context |-> ToolContext(100)]),
      Ok([results |-> <<"w1", "w2">>, sources |-> <<"w1", "w2">>, context |-> ToolContext(LongContext)]),
      Ok([results |-> <<"w1">>, sources |-> <<"w1">>, context |-> PaddedContext]) }

DocOutcomes ==
    { InitRaise,
      Raise,
      Ok([results |-> <<"d1">>, sources |-> <<"d1">>, context |-> ToolContext(250)]) }

Text(valid, value) == [valid |-> valid, value |-> value]
Garbage == Text(FALSE, JNull)

Decision(verdict, reasons, revised) ==
    JObj([verdict |-> verdict, reasons |-> reasons, revised_answer |-> revised])

VerifyTexts ==
    { Garbage,
      Text(TRUE, JNull),
      Text(TRUE, JObj(EmptyDict)),
      Text(TRUE, Decision("pass", JStr(EmptyStr), JNull)),
      Text(TRUE, Decision("revise", JStr(Rep("r", 130)), JNull)),
      Text(TRUE, Decision("revise", JStr(EmptyStr), JStr(Rep(" ", 2)))),
      Text(TRUE, Decision("revise", JStr(Rep("r", 7)),
                          JStr(Concat(Concat(Rep(" ", 1), Rep("R", 9)), Rep(" ", 1))))) }

\* the draft the model writes, with the whitespace a model leaves around it
DraftText == Concat(Concat(Rep(" ", 1), Rep("A", 12)), Rep(NL, 1))

OkText(text) == [kind |-> "ok", text |-> text]

LlmOutcomes ==
    { [draft |-> Raise, verify |-> Raise] }
    \cup { [draft |-> OkText(DraftText), verify |-> Raise] }
    \cup { [draft |-> OkText(DraftText), verify |-> OkText(t)] : t \in VerifyTexts }

QaOutcomes == { InitRaise } \cup { [kind |-> "ok", llm |-> l] : l \in LlmOutcomes }

Queries ==
    { FromChars(<<"d", "o", "c", "s">>),
      FromChars(<<"L", "a", "t", "e", "s", "t", " ", "d", "o", "c", "s">>) }

(***************************************************************************)
(* rag/agentic_rag_graph.py: nodes of build_rag_graph                      *)
(***************************************************************************)
\* the fixed answers of the RAG node_synthesize
RagNoInfoAnswer == Rep("I", 56)
\* qa.error of a failed answer_question
QaErrorText == Rep("E", 30)

rag_node_plan(state) ==
    [working_query |-> state["query"],
     iter |-> Get(state, "iter", 0),
     steps |-> Append(Get(state, "steps", << >>), "Plan: initialized working query")]

\* r is the outcome of embedding_processor.retrieve_knowledge
\* node_retrieve storing the tool's context whole
rag_node_retrieve_NoCap(state, r) ==
    LET steps == Get(state, "steps", << >>)
    IN  IF r.kind = "raise"
        THEN [results |-> << >>, sources |-> << >>, context |-> EmptyStr,
              steps |-> Append(steps, "Retrieve failed")]
        ELSE LET results == Get(r.response, "results", << >>)
             IN  [results |-> results,
                  sources |-> Get(r.response, "sources", << >>),
                  context |-> Get(r.response, "context", EmptyStr),
                  steps |-> Append(steps, "Retrieve: found " \o ToString(Len(results)) \o " chunk(s)")]

rag_node_retrieve(state, r) ==
    LET steps == Get(state, "steps", << >>)
    IN  IF r.kind = "raise"
        THEN [results |-> << >>, sources |-> << >>, context |-> EmptyStr,
              steps |-> Append(steps, "Retrieve failed")]
        ELSE LET results == Get(r.response, "results", << >>)
             IN  [results |-> results,
                  sources |-> Get(r.response, "sources", << >>),
                  context |-> Take(Get(r.response, "context", EmptyStr), ContextCap),
                  steps |-> Append(steps, "Retrieve: found " \o ToString(Len(results)) \o " chunk(s)")]

rag_node_synthesize(state, llm) ==
    LET steps == Get(state, "steps", << >>)
        ctx == Get(state, "context", EmptyStr)
    IN  IF Strip(ctx) = EmptyStr
        THEN [draft_answer |-> RagNoInfoAnswer,
              steps |-> Append(steps, "Synthesize: no context, empty draft")]
        ELSE LET qa == answer_question(ctx, llm)
             IN  [draft_answer |-> IF qa.success THEN qa.answer ELSE QaErrorText,
                  verification |-> Get(qa.metadata, "verification", EmptyDict),
                  steps |-> Append(steps, "Synthesize: drafted answer from retrieved context")]

rag_node_verify(state) ==
    LET decision == Get(state, "verification", EmptyDict)
        verdict == Get(decision, "verdict", "pass")
    IN  [verification |-> decision,
         steps |-> Append(Get(state, "steps", << >>), "Verify: verdict=" \o verdict)]

rag_node_refine(state) ==
    LET decision == Get(state, "verification", EmptyDict)
        reasons == Get(decision, "reasons", JStr(EmptyStr))
        wq == Get(state, "working_query", state["query"])
    IN  [working_query |-> ExpandQuery(IF wq # EmptyStr THEN wq ELSE state["query"], reasons),
         iter |-> Get(state, "iter", 0) + 1,
         context |-> EmptyStr,
         results |-> << >>,
         sources |-> << >>,
         steps |-> Append(Get(state, "steps", << >>), "Refine: expanded query and will re-retrieve")]

\* if revised: final_answer = str(revised).strip()
rag_node_finalize(state) ==
    LET decision == Get(state, "verification", EmptyDict)
        draft == Get(state, "draft_answer", EmptyStr)
        revised == Get(decision, "revised_answer", JNull)
    IN  [final_answer |-> IF Get(decision, "verdict", "none") = "revise" /\ Truthy(revised)
                          THEN Strip(PyStr(revised))
                          ELSE draft,
         steps |-> Append(Get(state, "steps", << >>), "Finalize: finalized answer")]

\* a should_refine that lets a run refine once more
rag_should_refine_Inclusive(state, max_refine) ==
    LET decision == Get(state, "verification", EmptyDict)
    IN  IF Get(decision, "verdict", "none") = "revise" /\ Get(state, "iter", 0) <= max_refine
        THEN "refine" ELSE "finalize"

rag_should_refine(state, max_refine) ==
    LET decision == Get(state, "verification", EmptyDict)
    IN  IF Get(decision, "verdict", "none") = "revise" /\ Get(state, "iter", 0) < max_refine
        THEN "refine" ELSE "finalize"

\* the dict run_agentic_rag_sync returns
RagResult(final_state) ==
    [answer |-> Get(final_state, "final_answer", EmptyStr),
     sources |-> Get(final_state, "sources", << >>),
     context_length |-> StrLen(Get(final_state, "context", EmptyStr)),
     iterations |-> Get(final_state, "iter", 0),
     verification |-> Get(final_state, "verification", EmptyDict),
     steps |-> Get(final_state, "steps", << >>)]

RagInitialState(query) == [query |-> query, file_ids |-> << >>, iter |-> 0, steps |-> << >>]

RetrieveOutcomes ==
    { Raise,
      Ok([error |-> "e", results |-> << >>, sources |-> << >>, context |-> EmptyStr]),
      Ok([results |-> <<"d1">>, sources |-> <<"d1">>, context |-> ToolContext(250)]),
      Ok([results |-> <<"d1", "d2">>, sources |-> <<"d1", "d2">>, context |-> ToolContext(LongContext)]) }

(***************************************************************************)
(* web_graph/web_search_graph.py: nodes.  The model calls (llm.invoke) are *)
(* not guarded: a call that raises ends the run with that exception.       *)
(***************************************************************************)
\* cap of the merged context of node_search
WebContextCap == 12000
\* subqueries kept by node_plan
MaxSubqueries == 3

\* subqueries is the list node_plan parsed from the model's text (empty when
\* the text is no JSON list of non-blank strings)
web_node_plan(state, subqueries) ==
    LET sq == IF subqueries = << >> THEN << state["query"] >> ELSE subqueries
        kept == SubSeq(sq, 1, IF Len(sq) < MaxSubqueries THEN Len(sq) ELSE MaxSubqueries)
    IN  [subqueries |-> kept,
         iter |-> Get(state, "iter", 0),
         steps |-> Append(Get(state, "steps", << >>),
                          "Plan: derived " \o ToString(Len(kept)) \o " subquerie(s)")]

RECURSIVE SearchMerge(_, _)
\* the loop of node_search over the outcomes of tool_web_search, one for each
\* subquery; acc is [results, sources, contexts]
SearchMerge(outs, acc) ==
    IF outs = << >> THEN acc
    ELSE LET o == outs[1]
             next == IF o.kind = "raise" THEN acc
                     ELSE LET ctx == Get(o.response, "context", EmptyStr)
                          IN  [results |-> Extend(acc.results, Get(o.response, "results", << >>)),
                               sources |-> Extend(acc.sources, Get(o.response, "sources", << >>)),
                               contexts |-> IF ctx # EmptyStr THEN Append(acc.contexts, ctx)
                                            ELSE acc.contexts]
         IN  SearchMerge(Tail(outs), next)

\* outs[i] is the outcome of tool_web_search for the i-th subquery
web_node_search(state, outs) ==
    LET m == SearchMerge(outs, [results |-> << >>, sources |-> << >>, contexts |-> << >>])
    IN  [results |-> m.results,
         sources |-> m.sources,
         context |-> Take(Join(Rep(NL, 2), m.contexts), WebContextCap),
         steps |-> Append(Get(state, "steps", << >>),
                          "Search: aggregated " \o ToString(Len(m.results)) \o " result(s) from "
                          \o ToString(Len(outs)) \o " subquery(ies)")]

\* text is the content the model returned
web_node_synthesize(state, text) ==
    [draft_answer |-> Strip(text),
     steps |-> Append(Get(state, "steps", << >>), "Synthesize: drafted an answer from merged context")]

\* the verification a web state holds, as a dict: state.get("verification", {}) or {}
\* followed by the isinstance(decision, dict) guard
WebDecision(state) ==
    LET v == Get(state, "verification", JObj(EmptyDict))
    IN  IF IsDict(v) THEN v.d ELSE EmptyDict

\* text is the verifier's text; the parsed value is stored whatever its type
web_node_verify(state, text) ==
    LET decision == ParseDecision(text)
        verdict == IF IsDict(decision) THEN Get(decision.d, "verdict", "pass") ELSE "pass"
    IN  [verification |-> decision,
         steps |-> Append(Get(state, "steps", << >>), "Verify: verdict=" \o verdict)]

\* text is the revised draft the model returned
web_node_refine(state, text) ==
    [draft_answer |-> Strip(text),
     iter |-> Get(state, "iter", 0) + 1,
     steps |-> Append(Get(state, "steps", << >>), "Refine: produced a revised draft")]

web_node_finalize(state) ==
    LET decision == WebDecision(state)
        draft == Get(state, "draft_answer", EmptyStr)
        revised == Get(decision, "revised_answer", JNull)
    IN  [final_answer |-> IF Get(decision, "verdict", "none") = "revise" /\ Truthy(revised)
                          THEN Strip(PyStr(revised))
                          ELSE draft,
         steps |-> Append(Get(state, "steps", << >>), "Finalize: finalized the answer")]

web_should_refine(state, max_refine) ==
    IF Get(WebDecision(state), "verdict", "none") = "revise" /\ Get(state, "iter", 0) < max_refine
    THEN "refine" ELSE "finalize"

\* the dict run_web_graph_sync returns
WebResult(final_state) ==
    [answer |-> Get(final_state, "final_answer", EmptyStr),
     sources |-> Get(final_state, "sources", << >>),
     context_length |-> StrLen(Get(final_state, "context", EmptyStr)),
     iterations |-> Get(final_state, "iter", 0),
     verification |-> Get(final_state, "verification", JObj(EmptyDict)),
     steps |-> Get(final_state, "steps", << >>)]

WebInitialState(query) == [query |-> query, iter |-> 0, steps |-> << >>]

\* what node_plan parses from the model's text
PlanOutcomes ==
    { << >>,
      << FromChars(<<"s", "1">>), FromChars(<<"s", "2">>) >>,
      << FromChars(<<"s", "1">>), FromChars(<<"s", "2">>),
         FromChars(<<"s", "3">>), FromChars(<<"s", "4">>) >> }

SearchOutcomes ==
    { Raise,
      Ok([results |-> <<"w1">>, sources |-> <<"w1">>, context |-> ToolContext(6500)]) }

\* the revised draft of node_refine
RefinedText == Concat(Rep("B", 10), Rep(NL, 1))

(***************************************************************************)
(* tools/scraper.py and huggingsmolagent/tools/scraper.py: the scrape      *)
(* strategies and their fallback chain.  URLs, domains and error messages  *)
(* are sequences of characters.                                            *)
(***************************************************************************)
\* search results search_web returns at most
MaxSearchResults == 6
\* runs of a text handed to truncate_content, and characters of a run
MaxRuns == 3
MaxRunLength == 8
\* the max_length values truncate_content is called with
MaxLengths == {5, 10}

\* max_length the strategies pass to truncate_content
StrategyTextLength == 1500
\* SCRAPING_CONFIG['max_retries'] of tools/scraper.py
MaxRetries == 2
\* max_attempts of use_beautifulsoup_optimized
MaxAttempts == 3

RECURSIVE RFind(_, _)
\* s.rfind(c): 0-based index of the last c in s, -1 when s has none
RFind(s, c) ==
    IF s = << >> THEN -1
    ELSE IF s[Len(s)][1] = c THEN StrLen(s) - 1
    ELSE RFind(SubSeq(s, 1, Len(s) - 1), c)

\* truncate_content of both scraper modules; last_space > max_length * 0.8
\* is compared in integers
truncate_content(content, max_length) ==
    IF StrLen(content) <= max_length THEN content
    ELSE LET truncated == Take(content, max_length)
             last_space == RFind(truncated, " ")
             cut == IF 10 * last_space > 8 * max_length
                    THEN Take(truncated, last_space)
                    ELSE truncated
         IN  Concat(cut, Rep(".", 3))

\* chars.lower()
Lower(chars) ==
    [i \in 1..Len(chars) |-> IF chars[i] \in DOMAIN LowerTable THEN LowerTable[chars[i]] ELSE chars[i]]

RECURSIVE Split(_, _)
\* chars.split(sep) for a one-character sep
Split(chars, sep) ==
    IF \A i \in 1..Len(chars) : chars[i] # sep THEN <<chars>>
    ELSE LET i == CHOOSE k \in 1..Len(chars) :
                      chars[k] = sep /\ \A j \in 1..(k - 1) : chars[j] # sep
         IN  <<SubSeq(chars, 1, i - 1)>> \o Split(SubSeq(chars, i + 1, Len(chars)), sep)

\* any(keyword in text for keyword in keywords)
AnyIn(keywords, text) == \E k \in keywords : ContainsWord(text, k)

\* what a call does: return a value or raise an exception
Returned(value) == [kind |-> "ok", value |-> value]
Raised(error) == [kind |-> "raise", error |-> error]

\* the exceptions of the scraping code, with their messages: IndexError is
\* url.split('/')[2] of a url without two slashes; Timeout, ConnectionError
\* and HTTPError are the requests exceptions of the HTTP call; blocked and
\* insufficient are raised on the page that was fetched; auth is Firecrawl
\* without its key; none is last_error = None, as str() shows it
ScrapeErrors ==
    [index |-> [type |-> "IndexError", msg |-> <<"l", "i", "s", "t", " ", "i", "n", "d", "e", "x", " ", "o", "u", "t", " ", "o", "f", " ", "r", "a", "n", "g", "e">>],
     timeout |-> [type |-> "Timeout", msg |-> <<"R", "e", "a", "d", " ", "t", "i", "m", "e", "d", " ", "o", "u", "t", " ", "(", "r", "e", "a", "d", " ", "t", "i", "m", "e", "o", "u", "t", "=", "2", "0", ")">>],
     reset |-> [type |-> "ConnectionError", msg |-> <<"C", "o", "n", "n", "e", "c", "t", "i", "o", "n", " ", "r", "e", "s", "e", "t", " ", "b", "y", " ", "p", "e", "e", "r">>],
     notfound |-> [type |-> "HTTPError", msg |-> <<"4", "0", "4", " ", "C", "l", "i", "e", "n", "t", " ", "E", "r", "r", "o", "r", ":", " ", "N", "o", "t", " ", "F", "o", "u", "n", "d">>],
     blocked |-> [type |-> "Exception", msg |-> <<"C", "o", "n", "t", "e", "n", "t", " ", "a", "p", "p", "e", "a", "r", "s", " ", "t", "o", " ", "b", "e", " ", "b", "l", "o", "c", "k", "e", "d">>],
     insufficient |-> [type |-> "Exception", msg |-> <<"I", "n", "s", "u", "f", "f", "i", "c", "i", "e", "n", "t", " ", "c", "o", "n", "t", "e", "n", "t", " ", "e", "x", "t", "r", "a", "c", "t", "e", "d">>],
     auth |-> [type |-> "Exception", msg |-> <<"F", "I", "R", "E", "C", "R", "A", "W", "L", "_", "A", "P", "I", "_", "K", "E", "Y", " ", "n", "o", "t", " ", "f", "o", "u", "n", "d">>],
     none |-> [type |-> "NoneType", msg |-> <<"N", "o", "n", "e">>]]

\* the requests exceptions
FetchErrors == {ScrapeErrors.timeout, ScrapeErrors.reset, ScrapeErrors.notfound}

\* js_heavy_domains of determine_scraping_order
JsHeavyDomains ==
    { <<"t", "w", "i", "t", "t", "e", "r">>,
      <<"f", "a", "c", "e", "b", "o", "o", "k">>,
      <<"i", "n", "s", "t", "a", "g", "r", "a", "m">>,
      <<"s", "p", "a">>,
      <<"r", "e", "a", "c", "t">>,
      <<"a", "n", "g", "u", "l", "a", "r">> }

determine_scraping_order(url, extraction_prompt, prefer_method) ==
    IF prefer_method = "firecrawl" THEN Returned(<<"firecrawl", "beautifulsoup", "selenium">>)
    ELSE IF prefer_method = "beautifulsoup" THEN Returned(<<"beautifulsoup", "selenium", "firecrawl">>)
    ELSE IF prefer_method = "selenium" THEN Returned(<<"selenium", "beautifulsoup", "firecrawl">>)
    ELSE LET parts == Split(url, "/")
         IN  IF Len(parts) < 3 THEN Raised(ScrapeErrors.index)
             ELSE LET domain == Lower(parts[3])
                      needs_js == AnyIn(JsHeavyDomains, domain)
                  IN  IF extraction_prompt # "" THEN Returned(<<"firecrawl", "selenium", "beautifulsoup">>)
                      ELSE IF needs_js THEN Returned(<<"selenium", "firecrawl", "beautifulsoup">>)
                      ELSE Returned(<<"beautifulsoup", "firecrawl", "selenium">>)

\* the domain lists of determine_scraping_strategy
HfDomains ==
    [js_heavy |-> { <<"s", "p", "a">>,
                   <<"r", "e", "a", "c", "t">>,
                   <<"a", "n", "g", "u", "l", "a", "r">>,
                   <<"v", "u", "e">>,
                   <<"t", "w", "i", "t", "t", "e", "r">>,
                   <<"f", "a", "c", "e", "b", "o", "o", "k">>,
                   <<"i", "n", "s", "t", "a", "g", "r", "a", "m">>,
                   <<"t", "i", "k", "t", "o", "k">>,
                   <<"f", "l", "i", "g", "h", "t", "s", "t", "a", "t", "s">>,
                   <<"f", "l", "i", "g", "h", "t", "a", "w", "a", "r", "e">>,
                   <<"f", "l", "i", "g", "h", "t", "v", "i", "e", "w">> },
     flight |-> { <<"f", "l", "i", "g", "h", "t", "s", "t", "a", "t", "s">>,
                 <<"f", "l", "i", "g", "h", "t", "a", "w", "a", "r", "e">>,
                 <<"f", "l", "i", "g", "h", "t", "r", "a", "d", "a", "r", "2", "4">>,
                 <<"p", "l", "a", "n", "e", "f", "i", "n", "d", "e", "r">> },
     blocking |-> { <<"c", "l", "o", "u", "d", "f", "l", "a", "r", "e">>,
                   <<"b", "o", "t", "-", "p", "r", "o", "t", "e", "c", "t", "i", "o", "n">>,
                   <<"c", "a", "p", "t", "c", "h", "a">> }]

determine_scraping_strategy(url, css_selector, extraction_prompt, prefer_method) ==
    IF prefer_method = "firecrawl" THEN Returned(<<"firecrawl", "beautifulsoup", "selenium">>)
    ELSE IF prefer_method = "beautifulsoup" THEN Returned(<<"beautifulsoup", "selenium", "firecrawl">>)
    ELSE IF prefer_method = "selenium" THEN Returned(<<"selenium", "beautifulsoup", "firecrawl">>)
    ELSE LET parts == Split(url, "/")
         IN  IF Len(parts) < 3 THEN Raised(ScrapeErrors.index)
             ELSE LET domain == Lower(parts[3])
                      needs_js == AnyIn(HfDomains.js_heavy, domain)
                      is_flight_site == AnyIn(HfDomains.flight, domain)
                      likely_blocked == AnyIn(HfDomains.blocking, domain)
                  IN  IF is_flight_site THEN Returned(<<"selenium", "firecrawl", "beautifulsoup">>)
                      ELSE IF extraction_prompt # "" THEN Returned(<<"firecrawl", "selenium", "beautifulsoup">>)
                      ELSE IF needs_js \/ likely_blocked THEN Returned(<<"selenium", "firecrawl", "beautifulsoup">>)
                      ELSE IF css_selector = "" THEN Returned(<<"beautifulsoup", "firecrawl", "selenium">>)
                      ELSE Returned(<<"firecrawl", "beautifulsoup", "selenium">>)

\* the text of a scraped page, longer than StrategyTextLength
PageText == Concat(Concat(Rep("t", 1300), Rep(" ", 1)), Rep("t", 400))

\* the outcomes of one attempt of a strategy: an error, or the full_text of
\* the page.  use_beautifulsoup_enhanced raises on a text shorter than 100
\* characters, the other strategies can return an empty text.
AttemptOutcomes(impl, method) ==
    CASE method = "firecrawl" ->
            {Raised(ScrapeErrors.auth), Raised(ScrapeErrors.timeout), Returned(EmptyStr),
             Returned(PageText)}
      [] method = "selenium" ->
            {Raised(ScrapeErrors.timeout), Returned(EmptyStr), Returned(PageText)}
      [] method = "beautifulsoup" ->
            {Raised(e) : e \in FetchErrors \cup {ScrapeErrors.blocked, ScrapeErrors.insufficient}}
               \cup (IF impl = "tools" THEN {} ELSE {Returned(EmptyStr)})
               \cup {Returned(PageText)}

\* should_retry of use_beautifulsoup_optimized
HfRetryKeywords ==
    { <<"t", "i", "m", "e", "o", "u", "t">>,
      <<"c", "o", "n", "n", "e", "c", "t", "i", "o", "n">>,
      <<"s", "s", "l">>,
      <<"c", "e", "r", "t", "i", "f", "i", "c", "a", "t", "e">>,
      <<"h", "a", "n", "d", "s", "h", "a", "k", "e">> }

\* whether the strategy makes another attempt after its n-th attempt ended
\* in error: use_beautifulsoup_enhanced retries on any exception while
\* attempts are left; use_beautifulsoup_optimized retries a requests
\* exception whose message has one of the keywords; firecrawl and selenium
\* make one attempt
Retries(impl, method, n, error) ==
    /\ method = "beautifulsoup"
    /\ IF impl = "tools"
       THEN n < MaxRetries
       ELSE /\ error \in FetchErrors
            /\ n < MaxAttempts
            /\ AnyIn(HfRetryKeywords, Lower(error.msg))

\* the failure result of webscraper of tools/scraper.py
ToolsFailure(url, last_error) ==
    [scraping_method |-> "failed",
     full_text |-> Concat(Concat(FromChars(<<"F", "a", "i", "l", "e", "d", " ", "t", "o", " ", "s", "c", "r", "a", "p", "e", " ">> \o url), FromChars(<<":", " ">>)),
                          FromChars(last_error.msg)),
     error |-> last_error.msg]

\* the failure result of webscraper of huggingsmolagent/tools/scraper.py
HfFailure ==
    [scraping_method |-> "failed",
     full_text |-> FromChars(<<"A", "l", "l", " ", "s", "c", "r", "a", "p", "i", "n", "g", " ", "m", "e", "t", "h", "o", "d", "s", " ", "f", "a", "i", "l", "e", "d">>),
     error |-> <<"A", "l", "l", " ", "s", "c", "r", "a", "p", "i", "n", "g", " ", "m", "e", "t", "h", "o", "d", "s", " ", "f", "a", "i", "l", "e", "d">>]

\* the start of webscraper: the strategies it will attempt, in order.
\* tools/scraper.py asks determine_scraping_order (outside any try);
\* huggingsmolagent/tools/scraper.py attempts a named prefer_method alone
\* and re-raises its failure, and otherwise goes through its methods dict.
ScraperStarted(s) ==
    IF s.impl = "tools"
    THEN LET r == determine_scraping_order(s.url, s.extraction_prompt, s.prefer_method)
         IN  IF r.kind = "raise"
             THEN [s EXCEPT !.pc = "raised", !.raised = r.error]
             ELSE [s EXCEPT !.pc = "strategy", !.methods = r.value, !.idx = 1]
    ELSE IF s.prefer_method \in {"firecrawl", "selenium", "beautifulsoup"}
         THEN [s EXCEPT !.pc = "strategy", !.methods = <<s.prefer_method>>, !.idx = 1,
                        !.reraise = TRUE]
         ELSE [s EXCEPT !.pc = "strategy", !.methods = <<"firecrawl", "selenium", "beautifulsoup">>,
                        !.idx = 1]

\* the loop of webscraper moves to the next strategy, or leaves the loop
\* and returns the failure result
NextStrategy(s, failure) ==
    IF s.idx < Len(s.methods)
    THEN [s EXCEPT !.idx = s.idx + 1, !.attempt = 0]
    ELSE [s EXCEPT !.pc = "returned", !.result = failure]

\* one attempt of the current strategy ended in out: the strategy retries,
\* or it ends and webscraper returns its result, re-raises its error or
\* goes on
ScraperStep(s, out) ==
    LET method == s.methods[s.idx]
        n == s.attempt + 1
        t == [s EXCEPT !.attempt = n,
                       !.trace = Append(s.trace, [method |-> method, attempt |-> n, outcome |-> out])]
    IN  IF out.kind = "raise"
        THEN IF Retries(s.impl, method, n, out.error) THEN t
             ELSE IF s.impl = "tools"
                  THEN NextStrategy([t EXCEPT !.last_error = out.error], ToolsFailure(s.url, out.error))
                  ELSE IF s.reraise
                       THEN [t EXCEPT !.pc = "raised", !.raised = out.error]
                       ELSE NextStrategy(t, HfFailure)
        ELSE LET text == truncate_content(out.value, StrategyTextLength)
             IN  IF s.impl = "tools"
                 THEN IF text # EmptyStr
                      THEN [t EXCEPT !.pc = "returned",
                                     !.result = [scraping_method |-> method, full_text |-> text,
                                                 error |-> << >>]]
                      ELSE NextStrategy(t, ToolsFailure(s.url, t.last_error))
                 ELSE \* full_text is json.dumps of the strategy's dict, here
                      \* its full_text in braces
                      [t EXCEPT !.pc = "returned",
                                !.result = [scraping_method |-> method,
                                            full_text |-> Concat(Concat(Rep("{", 1), text), Rep("}", 1)),
                                            error |-> << >>]]

\* web_search of both scraper modules
\* the number of search results web_search scrapes
ScrapeLimit == 5
\* the [:200] of a source's snippet
SnippetLength == 200

\* scraped_data.get("title", result["title"])
ScrapedTitle(scraped_data, result) ==
    IF "title" \in DOMAIN scraped_data THEN scraped_data.title ELSE result.title

\* the result and the source web_search appends for a scraped page
ScrapedResult(scraped_data, result) ==
    [title |-> ScrapedTitle(scraped_data, result), content |-> scraped_data.full_text,
     url |-> result.link]

ScrapedSource(scraped_data, result) ==
    [title |-> ScrapedTitle(scraped_data, result), url |-> result.link,
     snippet |-> Concat(Take(scraped_data.full_text, SnippetLength), Rep(".", 3))]

\* web_search without the guard idx < 5
web_search_scrape_NoLimit(s, out) ==
    LET result == s.search_results[s.idx + 1]
        t == [s EXCEPT !.idx = s.idx + 1]
    IN  IF out.kind = "ok" /\ out.value.full_text # EmptyStr
        THEN [t EXCEPT !.scraped_results = Append(s.scraped_results, ScrapedResult(out.value, result)),
                       !.sources = Append(s.sources, ScrapedSource(out.value, result)),
                       !.scraped = Append(s.scraped, s.idx + 1)]
        ELSE [t EXCEPT !.scraped = Append(s.scraped, s.idx + 1)]

\* one turn of the loop over search_results: webscraper is called for the
\* result at index idx when idx < 5, and its outcome out is appended to
\* scraped_results and sources when it returned a text; s.scraped lists the
\* indices webscraper was called for
web_search_scrape(s, out) ==
    LET result == s.search_results[s.idx + 1]
        t == [s EXCEPT !.idx = s.idx + 1]
    IN  IF s.idx >= ScrapeLimit THEN t
        ELSE IF out.kind = "ok" /\ out.value.full_text # EmptyStr
             THEN [t EXCEPT !.scraped_results = Append(s.scraped_results, ScrapedResult(out.value, result)),
                            !.sources = Append(s.sources, ScrapedSource(out.value, result)),
                            !.scraped = Append(s.scraped, s.idx + 1)]
             ELSE [t EXCEPT !.scraped = Append(s.scraped, s.idx + 1)]

\* f"Source [{idx + 1}]: {title}\n{content}\n\n----------\n\n" of the result
\* at the 0-based index idx
SourceBlock(idx, result) ==
    Join(EmptyStr,
         <<FromChars(<<"S", "o", "u", "r", "c", "e", " ", "[">>), Rep(ToString(idx + 1), 1), FromChars(<<"]", ":", " ">>),
           result.title, Rep(NL, 1), result.content, Rep(NL, 2), Rep("-", 10), Rep(NL, 2)>>)

RECURSIVE web_search_context(_, _)
\* the context web_search builds from scraped_results, from index idx on
web_search_context(scraped_results, idx) ==
    IF idx >= Len(scraped_results) THEN EmptyStr
    ELSE Concat(SourceBlock(idx, scraped_results[idx + 1]),
                web_search_context(scraped_results, idx + 1))

\* what web_search returns after the loop
web_search_result(s) ==
    [search_query |-> s.query, results |-> s.scraped_results, sources |-> s.sources,
     context |-> web_search_context(s.scraped_results, 0)]

\* what web_search returns without a query, or when search_web raises
web_search_error == [error |-> "e", results |-> << >>, sources |-> << >>]

\* n search results of search_web
SearchResults(n) ==
    [i \in 1..n |-> [link |-> <<"u", ToString(i)>>, title |-> Rep(ToString(i), 2)]]

\* what webscraper does for a link of a search result: it raises, returns
\* a page, or returns its failure result, whose full_text is the failure
\* message
ScrapeOutcomes(link) ==
    { Raised(ScrapeErrors.index),
      Returned([title |-> Rep("T", 6), full_text |-> truncate_content(PageText, StrategyTextLength),
                scraping_method |-> "beautifulsoup"]),
      Returned([full_text |-> Rep("t", 150), scraping_method |-> "selenium"]),
      Returned([title |-> EmptyStr, full_text |-> EmptyStr, scraping_method |-> "selenium"]),
      Returned([title |-> EmptyStr] @@ ToolsFailure(link, ScrapeErrors.timeout)) }

\* main.py upload_pdf and ask, huggingsmolagent/tools/vector_store.py
\* uploads of a run
MaxUploads == 3

\* compute_file_hash: the SHA-256 digest of the bytes, which tells apart
\* the contents of the model
compute_file_hash(content) == <<"sha256", content>>

\* the character NUL
Nul == "NUL"

\* the byte contents uploaded, and the pages parse_pdf finds in each, which
\* are the pages that are not blank: a scan without text has none, and the
\* second page of the report holds NUL characters only
UploadContents == {"scan", "memo", "report"}

parse_pdf(content) ==
    CASE content = "scan" -> << >>
      [] content = "memo" -> <<Rep("m", 9)>>
      [] OTHER -> <<Rep("r", 9), Rep(Nul, 2), Concat(Rep(Nul, 1), Rep("s", 9))>>

RECURSIVE Replace(_, _, _)
\* s.replace(old, new) for characters old and new
Replace(s, old, new) ==
    IF s = << >> THEN s
    ELSE Concat(<< <<IF s[1][1] = old THEN new ELSE s[1][1], s[1][2]>> >>,
                Replace(Tail(s), old, new))

\* _sanitize_text of store_embeddings and of EmbeddingProcessor: NUL becomes
\* a space and the text is stripped. The two re.sub of store_embeddings
\* delete white space between word characters only, which the texts of the
\* model do not hold
sanitize_text(text) == Strip(Replace(text, Nul, " "))

\* chunk_documents: the splitter makes one chunk of a page shorter than
\* chunk_size, and the chunks of a doc_id are numbered from 0
chunk_documents(documents, base_metadata) ==
    [i \in 1..Len(documents) |->
        [page_content |-> documents[i], metadata |-> base_metadata @@ [chunk_index |-> i - 1]]]

\* store_embeddings: the rows inserted into the documents table, one for
\* each chunk that is not empty once sanitized
store_embeddings(chunks) ==
    LET kept == SelectSeq(chunks, LAMBDA ch : sanitize_text(ch.page_content) # EmptyStr)
    IN  [i \in 1..Len(kept) |->
            kept[i].metadata @@ [content |-> sanitize_text(kept[i].page_content)]]

\* index_documents: the rows it inserts; it returns their number
index_documents(documents, base_metadata) ==
    store_embeddings(chunk_documents(documents, base_metadata))

\* the value None
None == [none |-> TRUE]

\* the rows of the documents table whose metadata has the doc_id
RowsOfDoc(rows, doc_id) == {i \in 1..Len(rows) : rows[i].doc_id = doc_id}

\* check_existing_document over the rows of the documents table: the
\* metadata of the first row with the file_hash and the number of rows of
\* its doc_id; None without such a row, or when the query raises
check_existing_document(rows, file_hash, query_ok) ==
    LET found == {i \in 1..Len(rows) : rows[i].file_hash = file_hash}
        first == CHOOSE i \in found : \A j \in found : i <= j
    IN  IF ~query_ok \/ found = {} THEN None
        ELSE [doc_id |-> rows[first].doc_id,
              chunk_count |-> Cardinality(RowsOfDoc(rows, rows[first].doc_id)),
              filename |-> rows[first].filename,
              source |-> rows[first].source]

\* what one uploaded file does to the store, in upload_pdf and in the loop
\* of ask: a known file_hash is answered from the table, another file is
\* parsed and indexed, one row per chunk, under a new doc_id. The entry
\* appended to st.log is what the caller reports for the file, with the
\* number of rows of the table after it
upload(st, content, filename, query_ok) ==
    LET file_hash == compute_file_hash(content)
        existing == check_existing_document(st.rows, file_hash, query_ok)
        documents == parse_pdf(content)
        doc_id == st.uuids + 1
        inserted == index_documents(documents, [source |-> filename, filename |-> filename,
                                                doc_id |-> doc_id, file_hash |-> file_hash])
        rows == st.rows \o inserted
    IN  IF existing # None
        THEN [st EXCEPT !.log = Append(st.log, [content |-> content, doc_id |-> existing.doc_id,
                                                chunks |-> existing.chunk_count, reused |-> TRUE,
                                                total |-> Len(st.rows)])]
        ELSE [st EXCEPT !.rows = rows, !.uuids = doc_id,
                        !.log = Append(st.log, [content |-> content, doc_id |-> doc_id,
                                                chunks |-> Len(inserted), reused |-> FALSE,
                                                total |-> Len(rows)])]

RECURSIVE ask_files(_, _)
\* the loop of ask over the files of a multipart request
ask_files(st, files) ==
    IF files = << >> THEN st
    ELSE ask_files(upload(st, files[1].content, files[1].filename, files[1].query_ok), Tail(files))

\* The knowledge base: retrieve_knowledge and delete_document_by_doc_id of
\* huggingsmolagent/tools/vector_store.py over the documents table ("vs"),
\* and EmbeddingProcessor of rag/embedding_processor.py over the file_items
\* table ("ep").
\* documents indexed in a run, and the largest top_k asked
MaxDocs == 3
MaxTopK == 2

\* xs[:n]
Slice(xs, n) == SubSeq(xs, 1, IF Len(xs) < n THEN Len(xs) ELSE n)

\* the queries asked, and the similarity, in hundredths, the embeddings give
\* a query and a chunk: one query is closest to the chunks stored first, the
\* other to the chunks stored last
KbQueries == {"early", "late"}

Similarity(query, row) ==
    IF query = "early" THEN 100 - (10 * row.doc_id + row.chunk_index)
    ELSE 10 * row.doc_id + row.chunk_index

\* the rows searched with their similarity, the most similar first
Ranked(rows, query) ==
    SortSeq([i \in 1..Len(rows) |-> [doc |-> rows[i], score |-> Similarity(query, rows[i])]],
            LAMBDA a, b : a.score > b.score)

\* the metadata column of a row of the documents table
Metadata(row) == [key \in DOMAIN row \ {"content"} |-> row[key]]

\* _patched_similarity_search: limit(k), the rows with a content, [:k]
patched_similarity_search(rows, query, k) ==
    Slice(SelectSeq(Slice(Ranked(rows, query), k), LAMBDA m : m.doc.content # EmptyStr), k)

\* the filter of retrieve_knowledge that cuts the documents but not the
\* scores to the doc_id
filter_by_doc_id_AllScores(found, scores, doc_id, top_k) ==
    LET filtered == SelectSeq(found, LAMBDA m : m.doc.doc_id = doc_id)
    IN  [docs |-> Slice([i \in 1..Len(filtered) |-> filtered[i].doc], top_k),
         scores |-> Slice(scores, top_k)]

\* the filter of retrieve_knowledge without the cut to top_k
filter_by_doc_id_NoCut(found, scores, doc_id, top_k) ==
    LET numbered == [i \in 1..Len(found) |-> [doc |-> found[i].doc, idx |-> i]]
        filtered == SelectSeq(numbered, LAMBDA m : m.doc.doc_id = doc_id)
        scored == SelectSeq(filtered, LAMBDA m : m.idx <= Len(scores))
    IN  [docs |-> [i \in 1..Len(filtered) |-> filtered[i].doc],
         scores |-> [i \in 1..Len(scored) |-> scores[scored[i].idx]]]

\* the filter of retrieve_knowledge by doc_id: the documents of the doc_id,
\* each with the score at its index when there is one, cut to top_k
filter_by_doc_id(found, scores, doc_id, top_k) ==
    LET numbered == [i \in 1..Len(found) |-> [doc |-> found[i].doc, idx |-> i]]
        filtered == SelectSeq(numbered, LAMBDA m : m.doc.doc_id = doc_id)
        scored == SelectSeq(filtered, LAMBDA m : m.idx <= Len(scores))
    IN  [docs |-> Slice([i \in 1..Len(filtered) |-> filtered[i].doc], top_k),
         scores |-> Slice([i \in 1..Len(scored) |-> scores[scored[i].idx]], top_k)]

\* the result of a retrieval that raised
RetrieveError == [error |-> "e", results |-> << >>, sources |-> << >>, context |-> EmptyStr]

\* a score in a context block, for {score:.4f}
ScoreText(score) == Rep(ToString(score), 1)

\* a block of the context of retrieve_knowledge of vector_store.py, idx
\* counted from 1
VsContextPart(idx, doc, scores) ==
    Join(EmptyStr,
         <<FromChars(<<"S", "o", "u", "r", "c", "e", " ", "[">>), Rep(ToString(idx), 1), Rep("]", 1),
           IF idx <= Len(scores)
           THEN Concat(FromChars(<<" ", "|", " ", "s", "c", "o", "r", "e", "=">>), ScoreText(scores[idx]))
           ELSE EmptyStr,
           FromChars(<<":", " ">>), Rep(doc.filename, 1), Rep(NL, 1),
           Strip(doc.content), Rep(NL, 2), Rep("-", 10), Rep(NL, 1)>>)

\* retrieve_knowledge of vector_store.py. doc_id 0 stands for no doc_id;
\* how says how the similarity search went: "scores", "fallback" when
\* the search with scores raised and similarity_search answered, "error"
\* when the embeddings or both searches raised. normalize_text strips the
\* content; its two re.sub leave the texts of the model unchanged
vs_retrieve_knowledge(rows, query, top_k, doc_id, how) ==
    LET found == patched_similarity_search(rows, query, IF doc_id # 0 THEN top_k * 3 ELSE top_k)
        all_scores == IF how = "scores" THEN [i \in 1..Len(found) |-> found[i].score] ELSE << >>
        kept == IF doc_id # 0 THEN filter_by_doc_id(found, all_scores, doc_id, top_k)
                ELSE [docs |-> [i \in 1..Len(found) |-> found[i].doc], scores |-> all_scores]
        docs == kept.docs
        scores == kept.scores
        score(i) == IF i <= Len(scores) THEN scores[i] ELSE None
    IN  IF how = "error" THEN RetrieveError
        ELSE [results |-> [i \in 1..Len(docs) |->
                              [content |-> Strip(docs[i].content), metadata |-> Metadata(docs[i]),
                               score |-> score(i)]],
              sources |-> [i \in 1..Len(docs) |->
                              [id |-> docs[i].doc_id, filename |-> docs[i].filename,
                               source |-> docs[i].source, chunk_index |-> docs[i].chunk_index,
                               score |-> score(i)]],
              context |-> Join(Rep(NL, 1), [i \in 1..Len(docs) |-> VsContextPart(i, docs[i], scores)])]

\* delete_document_by_doc_id that deletes the first chunk of the doc_id only
delete_document_by_doc_id_FirstChunk(rows, doc_id, request_ok) ==
    IF request_ok
    THEN [rows |-> SelectSeq(rows, LAMBDA r : ~(r.doc_id = doc_id /\ r.chunk_index = 0)),
          deleted |-> Cardinality({i \in RowsOfDoc(rows, doc_id) : rows[i].chunk_index = 0})]
    ELSE [rows |-> rows, deleted |-> 0]

\* delete_document_by_doc_id: the rows left in the table and the number
\* returned; when the request raises, nothing is deleted and 0 is returned
delete_document_by_doc_id(rows, doc_id, request_ok) ==
    IF request_ok
    THEN [rows |-> SelectSeq(rows, LAMBDA r : r.doc_id # doc_id),
          deleted |-> Cardinality(RowsOfDoc(rows, doc_id))]
    ELSE [rows |-> rows, deleted |-> 0]

\* EmbeddingProcessor.store_embeddings: the items inserted into file_items
\* and the EmbeddingResult; every chunk is inserted, numbered by enumerate
ep_store_embeddings(chunks, base_metadata, insert_ok) ==
    LET items == [i \in 1..Len(chunks) |->
                    [file_id |-> base_metadata.doc_id,
                     content |-> sanitize_text(chunks[i]),
                     tokens |-> StrLen(sanitize_text(chunks[i])) \div 4,
                     doc_id |-> base_metadata.doc_id,
                     filename |-> base_metadata.filename,
                     source |-> base_metadata.source,
                     chunk_index |-> i - 1]]
    IN  IF chunks = << >> \/ ~insert_ok
        THEN [items |-> << >>, result |-> [success |-> FALSE, chunks_stored |-> 0]]
        ELSE [items |-> items, result |-> [success |-> TRUE, chunks_stored |-> Len(items)]]

\* the error of EmbeddingProcessor.retrieve_knowledge for no chunk loaded
NoDocumentsIndexed ==
    [error |-> "No documents indexed yet", results |-> << >>, sources |-> << >>,
     context |-> EmptyStr]

\* a block of the context of EmbeddingProcessor.retrieve_knowledge
EpContextPart(idx, m) ==
    Join(EmptyStr,
         <<FromChars(<<"S", "o", "u", "r", "c", "e", " ", "[">>), Rep(ToString(idx), 1),
           FromChars(<<"]", " ", "|", " ", "s", "c", "o", "r", "e", "=">>), ScoreText(m.score),
           FromChars(<<":", " ">>), Rep(m.doc.filename, 1), Rep(NL, 1),
           m.doc.content, Rep(NL, 1)>>)

\* EmbeddingProcessor.retrieve_knowledge. file_ids is the set of the ids of
\* the list given, empty for None and for an empty list; how is "scores",
\* or "error" when the query of the table or the embeddings raise. The score
\* is the distance FAISS reports, smallest first
ep_retrieve_knowledge(items, query, top_k, file_ids, how) ==
    LET file_items == IF file_ids # {} THEN SelectSeq(items, LAMBDA it : it.file_id \in file_ids)
                      ELSE items
        ranked == Ranked(file_items, query)
        docs_with_scores == Slice([i \in 1..Len(ranked) |->
                                    [doc |-> ranked[i].doc, score |-> 100 - ranked[i].score]],
                                 IF top_k < Len(file_items) THEN top_k ELSE Len(file_items))
    IN  IF how = "error" THEN RetrieveError
        ELSE IF file_items = << >> THEN NoDocumentsIndexed
        ELSE IF docs_with_scores = << >>
        THEN [results |-> << >>, sources |-> << >>,
              context |-> FromChars(<<"N", "o", " ", "r", "e", "l", "e", "v", "a", "n", "t", " ", "i", "n", "f", "o", "r", "m", "a", "t", "i", "o", "n", " ", "f", "o", "u", "n", "d", ".">>)]
        ELSE [results |-> [i \in 1..Len(docs_with_scores) |->
                              [content |-> docs_with_scores[i].doc.content,
                               metadata |-> Metadata(docs_with_scores[i].doc),
                               score |-> docs_with_scores[i].score]],
              sources |-> [i \in 1..Len(docs_with_scores) |->
                              [id |-> docs_with_scores[i].doc.file_id,
                               filename |-> docs_with_scores[i].doc.filename,
                               source |-> docs_with_scores[i].doc.source,
                               chunk_index |-> docs_with_scores[i].doc.chunk_index,
                               score |-> docs_with_scores[i].score]],
              context |-> Concat(Join(Concat(Concat(Rep(NL, 1), Rep("-", 10)), Rep(NL, 2)),
                                      [i \in 1..Len(docs_with_scores) |->
                                          EpContextPart(i, docs_with_scores[i])]),
                                 Concat(Concat(Rep(NL, 1), Rep("-", 10)), Rep(NL, 1)))]

\* huggingsmolagent/tools/query_cache.py
\* calls of cached functions in a run, and ticks of the clock
MaxCalls == 3
MaxClock == 3
\* CACHE_TTL, in ticks, and CACHE_MAX_SIZE
CacheTtl == 2
CacheMaxSize == 2

\* the exception a call raises
TypeError == [raised |-> "TypeError"]

\* compute_query_hash(query, **kwargs): the digest of the normalized query
\* and of the sorted parameters, which is the same for the same pair only.
\* A 'query' among kwargs is a second value for the first parameter
compute_query_hash(query, kwargs) ==
    IF "query" \in DOMAIN kwargs THEN TypeError
    ELSE [normalized_query |-> Strip(FromChars(Lower(query))), params |-> kwargs]

\* what the function fn computes for a call
Computed(fn, args, kwargs) == [by |-> fn, args |-> args, kwargs |-> kwargs]

\* the entries of a TTLCache that have not expired, the least recently used
\* first
Unexpired(entries, now) == SelectSeq(entries, LAMBDA e : now < e.expires)

\* query_cache[cache_key] = value: expired entries are removed, then the
\* least recently used entries while the cache is full
CacheStore(entries, cache_key, value, now) ==
    LET live == SelectSeq(Unexpired(entries, now), LAMBDA e : e.key # cache_key)
        room == IF Len(live) >= CacheMaxSize
                THEN SubSeq(live, Len(live) - CacheMaxSize + 2, Len(live))
                ELSE live
    IN  Append(room, [key |-> cache_key, value |-> value, expires |-> now + CacheTtl])

\* the wrapper of cache_query_result around the function fn, called with
\* args and kwargs: c.returned says whether fn was executed, and what the
\* call returned or raised
wrapper(c, fn, args, kwargs) ==
    LET query == IF args # << >> THEN args[1] ELSE Get(kwargs, "query", << >>)
        cache_key == compute_query_hash(query, kwargs)
        live == Unexpired(c.entries, c.now)
        found == SelectSeq(live, LAMBDA e : e.key = cache_key)
        result == Computed(fn, args, kwargs)
    IN  IF ~c.enabled THEN [c EXCEPT !.returned = [outcome |-> "executed", result |-> result]]
        ELSE IF cache_key = TypeError
        THEN [c EXCEPT !.returned = [outcome |-> "raised", result |-> TypeError]]
        ELSE IF found # << >>
        THEN [c EXCEPT !.hits = @ + 1,
                       !.entries = SelectSeq(c.entries, LAMBDA e : e.key # cache_key) \o found,
                       !.returned = [outcome |-> "cached", result |-> found[1].value]]
        ELSE [c EXCEPT !.misses = @ + 1,
                       !.entries = CacheStore(c.entries, cache_key, result, c.now),
                       !.returned = [outcome |-> "executed", result |-> result]]

\* clear_cache
clear_cache(c) == [c EXCEPT !.entries = << >>, !.hits = 0, !.misses = 0, !.epoch = @ + 1]

\* huggingsmolagent/agent.py, generate_streaming_response
\* formatted steps an agent run puts on step_queue
MaxQueuedSteps == 3

\* the event of a step, of the final response and of an error
step_event(step) == [steps |-> <<step>>, response |-> "null"]

final_event(response) == [steps |-> << >>, response |-> response, canHandle |-> TRUE]

error_event(error) == [steps |-> << >>, response |-> "null", error |-> error]

\* a run_agent that signals only the runs that return
run_agent_SetOnReturn(outcome) == [outcome |-> outcome, finished |-> (outcome = "result")]

\* run_agent: agent_result or agent_error is assigned, and agent_finished
\* is set in the try and in the except branch
run_agent(outcome) == [outcome |-> outcome, finished |-> TRUE]

\* a loop that stops as soon as the agent has finished
streaming_continues_UntilFinished(finished, empty) == ~finished

\* while not agent_finished.is_set() or not step_queue.empty()
streaming_continues(finished, empty) == ~finished \/ ~empty

\* the urls, prompts and preferences webscraper is called with
Urls ==
    { <<"h", "t", "t", "p", ":", "/", "/", "a", "b", ".", "i", "o", "/", "p">>,
      <<"h", "t", "t", "p", "s", ":", "/", "/", "T", "w", "i", "t", "t", "e", "r", ".", "c", "o", "m", "/", "x">>,
      <<"a", "b", ".", "i", "o", "/", "r", "e", "a", "c", "t">>,
      <<"h", "t", "t", "p", ":", "/", "/", "f", "l", "i", "g", "h", "t", "r", "a", "d", "a", "r", "2", "4", ".", "c", "o", "m", "/", "f">> }

\* a call of webscraper (op "webscraper") or of the function that orders
\* the strategies (op "order"), before its first step
ScraperCall(impl, op, url, css_selector, extraction_prompt, prefer_method) ==
    [impl |-> impl, op |-> op, url |-> url, css_selector |-> css_selector,
     extraction_prompt |-> extraction_prompt, prefer_method |-> prefer_method,
     pc |-> "start", methods |-> << >>, idx |-> 0, attempt |-> 0, trace |-> << >>,
     last_error |-> ScrapeErrors.none, reraise |-> FALSE, raised |-> ScrapeErrors.none,
     result |-> [scraping_method |-> "none"]]

(***************************************************************************)
(* State                                                                   *)
(***************************************************************************)
VARIABLES
    uaState,       \* the UnifiedAgentState threaded through the graph
    uaPc,          \* the node the graph runs next; "returned", "raised" at the end
    uaSupersteps,  \* supersteps LangGraph has run
    uaResult,      \* what run_unified_agent returned
    uaVisits,      \* visits of THINK in this run
    uaEnv,         \* outcomes of the latest tool and model calls
    uaQa,          \* the latest call of answer_question: its verifier text and result
    uaSink,        \* the step callback: "none", or one that returns ("ok") or raises ("fails")
    uaDelivered,   \* the steps the callback was called with
    ragState,      \* the RAGState threaded through the graph of build_rag_graph
    ragPc,         \* the node that graph runs next
    ragMaxRefine,  \* max_refine of build_rag_graph
    ragResult,     \* what run_agentic_rag_sync returned
    webState,      \* the WebState threaded through the graph of build_graph
    webPc,         \* the node that graph runs next
    webMaxRefine,  \* max_refine of build_graph
    webResult,     \* what run_web_graph_sync returned
    scraper,       \* the running call of webscraper or of its ordering function
    trunc,         \* the running call of truncate_content
    search,        \* the running call of web_search
    store,         \* the documents table and the uploads answered
    kb,            \* the calls of the knowledge base: index, retrieve, delete
    sinks,         \* the global step callback and the streaming runs that share it
    cache,         \* query_cache, cache_stats and the calls of the cached functions
    stream,        \* step_queue, agent_finished, the agent thread and the response generator
    merge,         \* node_act called with the responses of the two tools
    ddg,           \* search_duckduckgo behind its lru_cache
    summ           \* _summarize_with_map_reduce at work

uaVars == <<uaState, uaPc, uaSupersteps, uaResult, uaVisits, uaEnv, uaQa, uaSink, uaDelivered>>
ragVars == <<ragState, ragPc, ragMaxRefine, ragResult>>
webVars == <<webState, webPc, webMaxRefine, webResult>>
toolVars == <<scraper, trunc, search, store, kb, sinks, cache, stream, merge, ddg, summ>>
vars == <<uaVars, ragVars, webVars, toolVars>>

UaNodes == {"think", "act", "observe", "synthesize", "verify", "finalize"}

NoEnv == [web |-> Raise, doc |-> Raise, qa |-> InitRaise]
NoQa == [called |-> FALSE]

\* the outcomes a call may have in the current round
Outcomes(all, last) == IF uaVisits <= FreeRounds THEN all ELSE {last}

\* no call of the scraping tools is running
Idle == [pc |-> "idle"]
ToolsIdle == scraper = Idle /\ trunc = Idle /\ search = Idle /\ store = Idle /\ kb = Idle /\ sinks = Idle /\ cache = Idle /\ stream = Idle /\ merge = Idle /\ ddg = Idle /\ summ = Idle

UaIdle ==
    /\ uaState = EmptyDict
    /\ uaPc = "idle"
    /\ uaSupersteps = 0
    /\ uaResult = EmptyDict
    /\ uaVisits = 0
    /\ uaEnv = NoEnv
    /\ uaQa = NoQa
    /\ uaSink = "none"
    /\ uaDelivered = << >>

RagIdle ==
    /\ ragState = EmptyDict
    /\ ragPc = "idle"
    /\ ragMaxRefine = 0
    /\ ragResult = EmptyDict

WebIdle ==
    /\ webState = EmptyDict
    /\ webPc = "idle"
    /\ webMaxRefine = 0
    /\ webResult = EmptyDict

\* run_unified_agent is called
InitUnified ==
    /\ ToolsIdle
    /\ RagIdle
    /\ WebIdle
    /\ \E query \in Queries, has_files \in BOOLEAN, max_iter \in 0..MaxIterBound :
          uaState = UnifiedInitialState(query, has_files, max_iter)
    /\ uaPc = "think"
    /\ uaSupersteps = 0
    /\ uaResult = EmptyDict
    /\ uaVisits = 0
    /\ uaEnv = NoEnv
    /\ uaQa = NoQa
    /\ uaSink = "none"
    /\ uaDelivered = << >>

\* LangGraph runs a node only while the recursion limit is not reached
UaRuns(node) == uaPc = node /\ uaSupersteps < RecursionLimit

\* the steps a node appends to the trace without passing them to emit_step
NotEmitted == {"web_search failed", "document_search failed", "ACT failed", "SYNTHESIZE failed"}

\* the steps a node added to the trace steps and passed to emit_step, where
\* ret is what the node returns
Emitted(steps, ret) ==
    SelectSeq(SubSeq(ret.steps, Len(steps) + 1, Len(ret.steps)),
              LAMBDA step : step \notin NotEmitted)

UaStep(ret, next) ==
    /\ uaState' = Update(uaState, ret)
    /\ uaPc' = next
    /\ uaSupersteps' = uaSupersteps + 1
    /\ uaDelivered' = IF uaSink = "none" THEN uaDelivered
                      ELSE uaDelivered \o Emitted(Get(uaState, "steps", << >>), ret)
    /\ UNCHANGED <<uaResult, uaSink, ragVars, webVars, toolVars>>

\* emit_step: nothing without a callback; with one, the callback is called
\* and emit_step returns or raises as the callback does. A callback that
\* fails does so at each call, so a run with it ends at its first step
emit_step(callback) == IF callback = "fails" THEN "raises" ELSE "returns"

\* the think node, whose emit_step is guarded by no try
Think ==
    /\ UaRuns("think")
    /\ emit_step(uaSink) = "returns"
    /\ UaStep(node_think(uaState), "act")
    /\ uaVisits' = uaVisits + 1
    /\ UNCHANGED <<uaEnv, uaQa>>

\* the outcomes of a call that is made only when called holds
OutcomesIf(called, all, last) == IF called THEN Outcomes(all, last) ELSE {last}

Act ==
    /\ UaRuns("act")
    /\ LET strategy == Get(uaState, "search_strategy", "web")
       IN  \E web \in OutcomesIf(strategy \in {"web", "hybrid"}, WebOutcomes, uaEnv.web),
              doc \in OutcomesIf(strategy \in {"documents", "hybrid"}, DocOutcomes, uaEnv.doc) :
              /\ UaStep(node_act(uaState, web, doc), "observe")
              /\ uaEnv' = [uaEnv EXCEPT !.web = web, !.doc = doc]
    /\ UNCHANGED <<uaVisits, uaQa>>

Observe ==
    /\ UaRuns("observe")
    /\ UaStep(node_observe(uaState), "synthesize")
    /\ UNCHANGED <<uaVisits, uaEnv, uaQa>>

Synthesize ==
    /\ UaRuns("synthesize")
    /\ LET calls == Strip(Get(uaState, "context", EmptyStr)) # EmptyStr
       IN  \E qa \in OutcomesIf(calls, QaOutcomes, uaEnv.qa) :
              /\ UaStep(node_synthesize(uaState, qa), "verify")
              /\ uaEnv' = [uaEnv EXCEPT !.qa = qa]
              /\ uaQa' = IF calls /\ qa.kind = "ok"
                         THEN [called |-> TRUE, llm |-> qa.llm,
                               result |-> answer_question(uaState["context"], qa.llm)]
                         ELSE NoQa
    /\ UNCHANGED uaVisits

\* the verify node and the conditional edge that follows it
Verify ==
    /\ UaRuns("verify")
    /\ LET after == Update(uaState, node_verify(uaState))
       IN  UaStep(node_verify(uaState),
                  IF should_refine(after) = "rethink" THEN "think" ELSE "finalize")
    /\ UNCHANGED <<uaVisits, uaEnv, uaQa>>

Finalize ==
    /\ UaRuns("finalize")
    /\ UaStep(node_finalize(uaState), "end")
    /\ UNCHANGED <<uaVisits, uaEnv, uaQa>>

\* agent.invoke returned: run_unified_agent builds its result
Return ==
    /\ uaPc = "end"
    /\ uaPc' = "returned"
    /\ uaResult' = UnifiedResult(uaState)
    /\ UNCHANGED <<uaState, uaSupersteps, uaVisits, uaEnv, uaQa, uaSink, uaDelivered, ragVars, webVars, toolVars>>

\* agent.invoke raises GraphRecursionError, which run_unified_agent does not catch
RecursionError ==
    /\ uaPc \in UaNodes
    /\ uaSupersteps >= RecursionLimit
    /\ uaPc' = "raised"
    /\ UNCHANGED <<uaState, uaSupersteps, uaResult, uaVisits, uaEnv, uaQa, uaSink, uaDelivered, ragVars, webVars, toolVars>>

\* the exception of a step callback, which no caller catches
SinkFailure == [raised |-> "step callback"]

\* the think node when emit_step raises: the exception leaves the node,
\* agent.invoke and run_unified_agent
ThinkSinkRaise ==
    /\ UaRuns("think")
    /\ emit_step(uaSink) = "raises"
    /\ uaPc' = "raised"
    /\ uaResult' = SinkFailure
    /\ UNCHANGED <<uaState, uaSupersteps, uaVisits, uaEnv, uaQa, uaSink, uaDelivered, ragVars, webVars, toolVars>>

\* run_unified_agent_streaming is called with a step callback
InitStreaming ==
    /\ ToolsIdle
    /\ RagIdle
    /\ WebIdle
    /\ \E query \in Queries, has_files \in BOOLEAN, max_iter \in 0..MaxIterBound :
          uaState = UnifiedInitialState(query, has_files, max_iter)
    /\ uaPc = "think"
    /\ uaSupersteps = 0
    /\ uaResult = EmptyDict
    /\ uaVisits = 0
    /\ uaEnv = NoEnv
    /\ uaQa = NoQa
    /\ uaSink \in {"ok", "fails"}
    /\ uaDelivered = << >>

StreamingNext ==
    \/ Think
    \/ ThinkSinkRaise
    \/ Act
    \/ Observe
    \/ Synthesize
    \/ Verify
    \/ Finalize
    \/ Return
    \/ RecursionError

StreamingSpec == InitStreaming /\ [][StreamingNext]_vars

(***************************************************************************)
(* The graph of build_rag_graph, run by run_agentic_rag_sync               *)
(***************************************************************************)
InitRag ==
    /\ ToolsIdle
    /\ UaIdle
    /\ WebIdle
    /\ \E query \in Queries : ragState = RagInitialState(query)
    /\ ragMaxRefine \in 0..MaxIterBound
    /\ ragPc = "plan"
    /\ ragResult = EmptyDict

RagStep(ret, next) ==
    /\ ragState' = Update(ragState, ret)
    /\ ragPc' = next
    /\ UNCHANGED <<ragMaxRefine, ragResult, uaVars, webVars, toolVars>>

RagPlan ==
    /\ ragPc = "plan"
    /\ RagStep(rag_node_plan(ragState), "retrieve")

RagRetrieve ==
    /\ ragPc = "retrieve"
    /\ \E r \in RetrieveOutcomes : RagStep(rag_node_retrieve(ragState, r), "synthesize")

RagSynthesize ==
    /\ ragPc = "synthesize"
    /\ \E llm \in LlmOutcomes : RagStep(rag_node_synthesize(ragState, llm), "verify")

\* the verify node and the conditional edge that follows it
RagVerify ==
    /\ ragPc = "verify"
    /\ RagStep(rag_node_verify(ragState),
               rag_should_refine(Update(ragState, rag_node_verify(ragState)), ragMaxRefine))

RagRefine ==
    /\ ragPc = "refine"
    /\ RagStep(rag_node_refine(ragState), "retrieve")

RagFinalize ==
    /\ ragPc = "finalize"
    /\ RagStep(rag_node_finalize(ragState), "end")

RagReturn ==
    /\ ragPc = "end"
    /\ ragPc' = "returned"
    /\ ragResult' = RagResult(ragState)
    /\ UNCHANGED <<ragState, ragMaxRefine, uaVars, webVars, toolVars>>

(***************************************************************************)
(* The graph of build_graph, run by run_web_graph_sync                     *)
(***************************************************************************)
InitWeb ==
    /\ ToolsIdle
    /\ UaIdle
    /\ RagIdle
    /\ \E query \in Queries : webState = WebInitialState(query)
    /\ webMaxRefine \in 0..MaxIterBound
    /\ webPc = "plan"
    /\ webResult = EmptyDict

WebStep(ret, next) ==
    /\ webState' = Update(webState, ret)
    /\ webPc' = next
    /\ UNCHANGED <<webMaxRefine, webResult, uaVars, ragVars, toolVars>>

\* a model call of a node raises: the exception leaves app.invoke
WebRaise ==
    /\ webPc \in {"plan", "synthesize", "verify", "refine"}
    /\ webPc' = "raised"
    /\ UNCHANGED <<webState, webMaxRefine, webResult, uaVars, ragVars, toolVars>>

WebPlan ==
    /\ webPc = "plan"
    /\ \E subqueries \in PlanOutcomes : WebStep(web_node_plan(webState, subqueries), "search")

WebSearch ==
    /\ webPc = "search"
    /\ \E outs \in [1..Len(webState["subqueries"]) -> SearchOutcomes] :
          WebStep(web_node_search(webState, outs), "synthesize")

WebSynthesize ==
    /\ webPc = "synthesize"
    /\ WebStep(web_node_synthesize(webState, DraftText), "verify")

\* the verify node and the conditional edge that follows it
WebVerify ==
    /\ webPc = "verify"
    /\ \E text \in VerifyTexts :
          WebStep(web_node_verify(webState, text),
                  web_should_refine(Update(webState, web_node_verify(webState, text)), webMaxRefine))

WebRefine ==
    /\ webPc = "refine"
    /\ WebStep(web_node_refine(webState, RefinedText), "verify")

WebFinalize ==
    /\ webPc = "finalize"
    /\ WebStep(web_node_finalize(webState), "end")

WebReturn ==
    /\ webPc = "end"
    /\ webPc' = "returned"
    /\ webResult' = WebResult(webState)
    /\ UNCHANGED <<webState, webMaxRefine, uaVars, ragVars, toolVars>>

Init == InitUnified \/ InitRag \/ InitWeb

Next ==
    \/ Think
    \/ Act
    \/ Observe
    \/ Synthesize
    \/ Verify
    \/ Finalize
    \/ Return
    \/ RecursionError
    \/ RagPlan
    \/ RagRetrieve
    \/ RagSynthesize
    \/ RagVerify
    \/ RagRefine
    \/ RagFinalize
    \/ RagReturn
    \/ WebPlan
    \/ WebSearch
    \/ WebSynthesize
    \/ WebVerify
    \/ WebRefine
    \/ WebFinalize
    \/ WebReturn
    \/ WebRaise

Spec == Init /\ [][Next]_vars

\* the two refinement graphs alone; a graph that can take a step takes one
RefineInit == InitRag \/ InitWeb

RefineNext ==
    \/ RagPlan
    \/ RagRetrieve
    \/ RagSynthesize
    \/ RagVerify
    \/ RagRefine
    \/ RagFinalize
    \/ RagReturn
    \/ WebPlan
    \/ WebSearch
    \/ WebSynthesize
    \/ WebVerify
    \/ WebRefine
    \/ WebFinalize
    \/ WebReturn
    \/ WebRaise

RefineSpec == RefineInit /\ [][RefineNext]_vars /\ WF_vars(RefineNext)

(***************************************************************************)
(* The tools and services, called on their own                             *)
(***************************************************************************)
LoopsIdle == UaIdle /\ RagIdle /\ WebIdle

InitScraper ==
    /\ LoopsIdle
    /\ summ = Idle
    /\ ddg = Idle
    /\ merge = Idle
    /\ stream = Idle
    /\ cache = Idle
    /\ sinks = Idle
    /\ kb = Idle
    /\ store = Idle
    /\ trunc = Idle
    /\ search = Idle
    /\ \E impl \in {"tools", "hf"}, url \in Urls, extraction_prompt \in {"", "title"},
          prefer_method \in {"auto", "firecrawl", "beautifulsoup", "selenium", "playwright"} :
          \/ scraper = ScraperCall(impl, "webscraper", url, "", extraction_prompt, prefer_method)
          \/ \E css_selector \in (IF impl = "tools" THEN {""} ELSE {"", "h1"}) :
                scraper = ScraperCall(impl, "order", url, css_selector, extraction_prompt,
                                      prefer_method)

\* webscraper starts
ScraperStart ==
    /\ scraper.pc = "start"
    /\ scraper.op = "webscraper"
    /\ scraper' = ScraperStarted(scraper)
    /\ UNCHANGED <<uaVars, ragVars, webVars, trunc, search, store, kb, sinks, cache, stream, merge, ddg, summ>>

\* the current strategy of webscraper makes one attempt
ScraperAttempt ==
    /\ scraper.pc = "strategy"
    /\ \E out \in AttemptOutcomes(scraper.impl, scraper.methods[scraper.idx]) :
          scraper' = ScraperStep(scraper, out)
    /\ UNCHANGED <<uaVars, ragVars, webVars, trunc, search, store, kb, sinks, cache, stream, merge, ddg, summ>>

\* determine_scraping_order or determine_scraping_strategy is called
ScraperOrder ==
    /\ scraper.pc = "start"
    /\ scraper.op = "order"
    /\ LET r == IF scraper.impl = "tools"
                THEN determine_scraping_order(scraper.url, scraper.extraction_prompt,
                                              scraper.prefer_method)
                ELSE determine_scraping_strategy(scraper.url, scraper.css_selector,
                                                 scraper.extraction_prompt, scraper.prefer_method)
       IN  scraper' = IF r.kind = "raise"
                      THEN [scraper EXCEPT !.pc = "raised", !.raised = r.error]
                      ELSE [scraper EXCEPT !.pc = "returned", !.methods = r.value]
    /\ UNCHANGED <<uaVars, ragVars, webVars, trunc, search, store, kb, sinks, cache, stream, merge, ddg, summ>>

\* the texts truncate_content is called with: words of the letter a and
\* runs of spaces, at most MaxRuns of them, each of at most MaxRunLength
\* characters
RECURSIVE Texts(_, _)
Texts(first, runs) ==
    IF runs = 0 THEN {EmptyStr}
    ELSE LET other == IF first = "a" THEN " " ELSE "a"
         IN  {EmptyStr} \cup
             {<< <<first, n>> >> \o rest : n \in 1..MaxRunLength, rest \in Texts(other, runs - 1)}

InitTruncate ==
    /\ LoopsIdle
    /\ summ = Idle
    /\ ddg = Idle
    /\ merge = Idle
    /\ stream = Idle
    /\ cache = Idle
    /\ sinks = Idle
    /\ kb = Idle
    /\ store = Idle
    /\ scraper = Idle
    /\ search = Idle
    /\ \E content \in Texts("a", MaxRuns) \cup Texts(" ", MaxRuns), max_length \in MaxLengths :
          trunc = [pc |-> "start", content |-> content, max_length |-> max_length,
                   result |-> EmptyStr]

\* truncate_content runs
Truncate ==
    /\ trunc.pc = "start"
    /\ trunc' = [trunc EXCEPT !.pc = "returned",
                              !.result = truncate_content(trunc.content, trunc.max_length)]
    /\ UNCHANGED <<uaVars, ragVars, webVars, scraper, search, store, kb, sinks, cache, stream, merge, ddg, summ>>

InitSearch ==
    /\ LoopsIdle
    /\ summ = Idle
    /\ ddg = Idle
    /\ merge = Idle
    /\ stream = Idle
    /\ cache = Idle
    /\ sinks = Idle
    /\ kb = Idle
    /\ store = Idle
    /\ scraper = Idle
    /\ trunc = Idle
    /\ \E query \in {"", "q"} :
          search = [pc |-> "start", query |-> query, search_results |-> << >>, idx |-> 0,
                    scraped |-> << >>, scraped_results |-> << >>, sources |-> << >>,
                    methods |-> << >>, result |-> EmptyDict]

\* web_search up to the return of search_web: no query, or search_web
\* raises, and the error result is returned; or the loop starts
SearchStart ==
    /\ search.pc = "start"
    /\ \/ search' = [search EXCEPT !.pc = "returned", !.result = web_search_error]
       \/ /\ search.query # ""
          /\ \E n \in 0..MaxSearchResults :
                search' = [search EXCEPT !.pc = "loop", !.search_results = SearchResults(n)]
    /\ UNCHANGED <<uaVars, ragVars, webVars, scraper, trunc, store, kb, sinks, cache, stream, merge, ddg, summ>>

\* one turn of the loop over the search results; methods keeps what each
\* call of webscraper answered: its scraping_method, or that it raised
SearchScrape ==
    /\ search.pc = "loop"
    /\ search.idx < Len(search.search_results)
    /\ \E out \in (IF search.idx < ScrapeLimit
                    THEN ScrapeOutcomes(search.search_results[search.idx + 1].link)
                    ELSE {Raised(ScrapeErrors.none)}) :
          search' = [web_search_scrape(search, out) EXCEPT !.methods =
                        IF search.idx >= ScrapeLimit THEN @
                        ELSE Append(@, IF out.kind = "ok" THEN out.value.scraping_method
                                       ELSE "raised")]
    /\ UNCHANGED <<uaVars, ragVars, webVars, scraper, trunc, store, kb, sinks, cache, stream, merge, ddg, summ>>

\* the loop is over: web_search builds the context and returns
SearchReturn ==
    /\ search.pc = "loop"
    /\ search.idx = Len(search.search_results)
    /\ search' = [search EXCEPT !.pc = "returned", !.result = web_search_result(search)]
    /\ UNCHANGED <<uaVars, ragVars, webVars, scraper, trunc, store, kb, sinks, cache, stream, merge, ddg, summ>>

\* the files of an upload: bytes, a filename, and whether the query of
\* check_existing_document is answered
UploadFiles == [content : UploadContents, filename : {"a.pdf", "b.pdf"}, query_ok : BOOLEAN]

InitStore ==
    /\ LoopsIdle
    /\ summ = Idle
    /\ ddg = Idle
    /\ merge = Idle
    /\ stream = Idle
    /\ cache = Idle
    /\ sinks = Idle
    /\ kb = Idle
    /\ scraper = Idle
    /\ trunc = Idle
    /\ search = Idle
    /\ store = [pc |-> "serving", rows |-> << >>, uuids |-> 0, log |-> << >>]

\* POST /upload with one file
UploadPdf ==
    /\ store.pc = "serving"
    /\ Len(store.log) < MaxUploads
    /\ \E f \in UploadFiles : store' = upload(store, f.content, f.filename, f.query_ok)
    /\ UNCHANGED <<uaVars, ragVars, webVars, scraper, trunc, search, kb, sinks, cache, stream, merge, ddg, summ>>

\* POST /ask with one or two files
AskUpload ==
    /\ store.pc = "serving"
    /\ \E f \in UploadFiles :
          \/ /\ Len(store.log) < MaxUploads
             /\ store' = ask_files(store, <<f>>)
          \/ /\ Len(store.log) + 1 < MaxUploads
             /\ \E g \in UploadFiles : store' = ask_files(store, <<f, g>>)
    /\ UNCHANGED <<uaVars, ragVars, webVars, scraper, trunc, search, kb, sinks, cache, stream, merge, ddg, summ>>

\* the knowledge base starts with an empty table
InitKb ==
    /\ LoopsIdle
    /\ summ = Idle
    /\ ddg = Idle
    /\ merge = Idle
    /\ stream = Idle
    /\ cache = Idle
    /\ sinks = Idle
    /\ scraper = Idle
    /\ trunc = Idle
    /\ search = Idle
    /\ store = Idle
    /\ \E impl \in {"vs", "ep"} :
          kb = [pc |-> "ready", impl |-> impl, table |-> << >>, uuids |-> 0,
                last |-> [op |-> "none"]]

\* a document is indexed under a new doc_id: index_documents, or
\* EmbeddingProcessor.store_embeddings with the pages as chunks
KbIndex ==
    /\ kb.pc = "ready"
    /\ kb.uuids < MaxDocs
    /\ \E content \in UploadContents, insert_ok \in BOOLEAN :
          LET doc_id == kb.uuids + 1
              base_metadata == [source |-> "a.pdf", filename |-> "a.pdf", doc_id |-> doc_id,
                                file_hash |-> compute_file_hash(content)]
              inserted == index_documents(parse_pdf(content), base_metadata)
              stored == ep_store_embeddings(parse_pdf(content), base_metadata, insert_ok)
          IN  \/ /\ kb.impl = "vs"
                 /\ insert_ok
                 /\ kb' = [kb EXCEPT !.table = kb.table \o inserted, !.uuids = doc_id,
                                     !.last = [op |-> "index", doc_id |-> doc_id,
                                               stored |-> Len(inserted)]]
              \/ /\ kb.impl = "ep"
                 /\ kb' = [kb EXCEPT !.table = kb.table \o stored.items, !.uuids = doc_id,
                                     !.last = [op |-> "index", doc_id |-> doc_id,
                                               stored |-> stored.result.chunks_stored]]
    /\ UNCHANGED <<uaVars, ragVars, webVars, scraper, trunc, search, store, sinks, cache, stream, merge, ddg, summ>>

\* retrieve_knowledge is called
KbRetrieve ==
    /\ kb.pc = "ready"
    /\ \E query \in KbQueries, top_k \in 1..MaxTopK, doc_id \in 0..(MaxDocs + 1),
          how \in {"scores", "fallback", "error"} :
          \/ /\ kb.impl = "vs"
             /\ kb' = [kb EXCEPT !.last =
                         [op |-> "retrieve", top_k |-> top_k, doc_id |-> doc_id, query |-> query,
                          how |-> how,
                          result |-> vs_retrieve_knowledge(kb.table, query, top_k, doc_id, how)]]
          \/ /\ kb.impl = "ep"
             /\ how # "fallback"
             /\ kb' = [kb EXCEPT !.last =
                         [op |-> "retrieve", top_k |-> top_k, doc_id |-> doc_id, query |-> query,
                          how |-> how,
                          result |-> ep_retrieve_knowledge(kb.table, query, top_k,
                                                           IF doc_id = 0 THEN {} ELSE {doc_id},
                                                           how)]]
    /\ UNCHANGED <<uaVars, ragVars, webVars, scraper, trunc, search, store, sinks, cache, stream, merge, ddg, summ>>

\* delete_document_by_doc_id is called
KbDelete ==
    /\ kb.pc = "ready"
    /\ kb.impl = "vs"
    /\ \E doc_id \in 1..(MaxDocs + 1), request_ok \in BOOLEAN :
          LET d == delete_document_by_doc_id(kb.table, doc_id, request_ok)
          IN  kb' = [kb EXCEPT !.table = d.rows,
                               !.last = [op |-> "delete", doc_id |-> doc_id, before |-> kb.table,
                                         request_ok |-> request_ok, deleted |-> d.deleted]]
    /\ UNCHANGED <<uaVars, ragVars, webVars, scraper, trunc, search, store, sinks, cache, stream, merge, ddg, summ>>

\* unified_agent.py: the module variable _step_callback, shared by the
\* calls of run_unified_agent_streaming that run at the same time, each in
\* its thread with its own callback
\* steps a run emits
StepsPerRun == 2

StreamingRuns == {1, 2}

\* no callback: the value None of _step_callback
NoCallback == 0

InitSinks ==
    /\ LoopsIdle
    /\ summ = Idle
    /\ ddg = Idle
    /\ merge = Idle
    /\ stream = Idle
    /\ cache = Idle
    /\ scraper = Idle
    /\ trunc = Idle
    /\ search = Idle
    /\ store = Idle
    /\ kb = Idle
    /\ sinks = [pc |-> "serving", callback |-> NoCallback,
                runs |-> [i \in StreamingRuns |-> [pc |-> "start", emitted |-> 0]],
                delivered |-> [i \in StreamingRuns |-> << >>]]

\* set_step_callback(step_callback) at the start of a run
SinkSet ==
    /\ sinks.pc = "serving"
    /\ \E i \in StreamingRuns :
          /\ sinks.runs[i].pc = "start"
          /\ sinks' = [sinks EXCEPT !.callback = i, !.runs[i].pc = "running"]
    /\ UNCHANGED <<uaVars, ragVars, webVars, scraper, trunc, search, store, kb, cache, stream, merge, ddg, summ>>

\* emit_step, the test "_step_callback is not None": without a callback the
\* step is dropped
SinkEmitTest ==
    /\ sinks.pc = "serving"
    /\ \E i \in StreamingRuns :
          /\ sinks.runs[i].pc = "running"
          /\ sinks.runs[i].emitted < StepsPerRun
          /\ sinks' = IF sinks.callback = NoCallback
                      THEN [sinks EXCEPT !.runs[i].emitted = @ + 1]
                      ELSE [sinks EXCEPT !.runs[i].pc = "calling"]
    /\ UNCHANGED <<uaVars, ragVars, webVars, scraper, trunc, search, store, kb, cache, stream, merge, ddg, summ>>

\* emit_step, the call "_step_callback(step)", which reads the variable
\* again: the step goes to the callback installed now; calling None raises
\* TypeError, which ends the run
SinkEmitCall ==
    /\ sinks.pc = "serving"
    /\ \E i \in StreamingRuns :
          /\ sinks.runs[i].pc = "calling"
          /\ sinks' = IF sinks.callback = NoCallback
                      THEN [sinks EXCEPT !.runs[i].pc = "raising"]
                      ELSE [sinks EXCEPT !.runs[i].pc = "running",
                                         !.runs[i].emitted = @ + 1,
                                         !.delivered[sinks.callback] =
                                             Append(@, [run |-> i, step |-> sinks.runs[i].emitted + 1])]
    /\ UNCHANGED <<uaVars, ragVars, webVars, scraper, trunc, search, store, kb, cache, stream, merge, ddg, summ>>

\* the finally of run_unified_agent_streaming: clear_step_callback()
SinkClear ==
    /\ sinks.pc = "serving"
    /\ \E i \in StreamingRuns :
          \/ /\ sinks.runs[i].pc = "running"
             /\ sinks.runs[i].emitted = StepsPerRun
             /\ sinks' = [sinks EXCEPT !.callback = NoCallback, !.runs[i].pc = "returned"]
          \/ /\ sinks.runs[i].pc = "raising"
             /\ sinks' = [sinks EXCEPT !.callback = NoCallback, !.runs[i].pc = "raised"]
    /\ UNCHANGED <<uaVars, ragVars, webVars, scraper, trunc, search, store, kb, cache, stream, merge, ddg, summ>>

(***************************************************************************)
(* The stream of steps of generate_streaming_response                      *)
(***************************************************************************)
\* the formatted steps; a run can emit the same text twice
StepTexts == {"Thought", "Action"}

InitStream ==
    /\ LoopsIdle
    /\ summ = Idle
    /\ ddg = Idle
    /\ merge = Idle
    /\ scraper = Idle
    /\ trunc = Idle
    /\ search = Idle
    /\ store = Idle
    /\ kb = Idle
    /\ sinks = Idle
    /\ cache = Idle
    /\ stream = [pc |-> "serving", agent |-> "running", outcome |-> "none", finished |-> FALSE,
                 queue |-> << >>, put |-> << >>, gen |-> "test_finished", saw |-> FALSE,
                 sent |-> << >>, queued_at_finish |-> FALSE]

\* QueueStepTracker.__call__ puts a formatted step on the queue
StreamPut ==
    /\ stream.pc = "serving"
    /\ stream.agent = "running"
    /\ Len(stream.put) < MaxQueuedSteps
    /\ \E step \in StepTexts :
          stream' = [stream EXCEPT !.queue = Append(@, step), !.put = Append(@, step)]
    /\ UNCHANGED <<uaVars, ragVars, webVars, scraper, trunc, search, store, kb, sinks, cache, merge, ddg, summ>>

\* run_agent: agent.run returns or raises, and agent_finished is set
StreamAgentFinish ==
    /\ stream.pc = "serving"
    /\ stream.agent = "running"
    /\ \E outcome \in {"result", "error"} :
          stream' = [stream EXCEPT !.agent = "set", !.outcome = run_agent(outcome).outcome,
                                   !.finished = run_agent(outcome).finished,
                                   !.queued_at_finish = (stream.queue # << >>)]
    /\ UNCHANGED <<uaVars, ragVars, webVars, scraper, trunc, search, store, kb, sinks, cache, merge, ddg, summ>>

\* the agent thread ends
StreamAgentExit ==
    /\ stream.pc = "serving"
    /\ stream.agent = "set"
    /\ stream' = [stream EXCEPT !.agent = "done"]
    /\ UNCHANGED <<uaVars, ragVars, webVars, scraper, trunc, search, store, kb, sinks, cache, merge, ddg, summ>>

\* the generator reads agent_finished
StreamTestFinished ==
    /\ stream.pc = "serving"
    /\ stream.gen = "test_finished"
    /\ stream' = [stream EXCEPT !.gen = "test_empty", !.saw = stream.finished]
    /\ UNCHANGED <<uaVars, ragVars, webVars, scraper, trunc, search, store, kb, sinks, cache, merge, ddg, summ>>

\* the generator reads step_queue.empty() and goes on or leaves the loop
StreamTestEmpty ==
    /\ stream.pc = "serving"
    /\ stream.gen = "test_empty"
    /\ stream' = [stream EXCEPT !.gen = IF streaming_continues(stream.saw, stream.queue = << >>)
                                        THEN "get" ELSE "join"]
    /\ UNCHANGED <<uaVars, ragVars, webVars, scraper, trunc, search, store, kb, sinks, cache, merge, ddg, summ>>

\* step_queue.get returns a step, which is sent to the client
StreamGet ==
    /\ stream.pc = "serving"
    /\ stream.gen = "get"
    /\ stream.queue # << >>
    /\ stream' = [stream EXCEPT !.queue = Tail(@),
                                !.sent = Append(@, step_event(Head(stream.queue))),
                                !.gen = "test_finished"]
    /\ UNCHANGED <<uaVars, ragVars, webVars, scraper, trunc, search, store, kb, sinks, cache, merge, ddg, summ>>

\* step_queue.get raises queue.Empty after the timeout, and the generator
\* sleeps
StreamTimeout ==
    /\ stream.pc = "serving"
    /\ stream.gen = "get"
    /\ stream.queue = << >>
    /\ stream' = [stream EXCEPT !.gen = "test_finished"]
    /\ UNCHANGED <<uaVars, ragVars, webVars, scraper, trunc, search, store, kb, sinks, cache, merge, ddg, summ>>

\* agent_thread.join() returns, and the final response or the error is sent
StreamFinal ==
    /\ stream.pc = "serving"
    /\ stream.gen = "join"
    /\ stream.agent = "done"
    /\ stream' = [stream EXCEPT !.gen = "done",
                                !.sent = Append(@, IF stream.outcome = "error"
                                                   THEN error_event("Error during agent execution")
                                                   ELSE final_event("answer"))]
    /\ UNCHANGED <<uaVars, ragVars, webVars, scraper, trunc, search, store, kb, sinks, cache, merge, ddg, summ>>

(***************************************************************************)
(* node_act over the responses of web_search and retrieve_knowledge        *)
(***************************************************************************)
\* pages web_search scraped and chunks retrieve_knowledge found, at most
MaxMerged == 2

\* the response of web_search that scraped n pages
WebResponse(n) ==
    LET page == [title |-> Rep("T", 6), full_text |-> Rep("w", 5)]
        found == SearchResults(n)
    IN  web_search_result([query |-> "q",
                           scraped_results |-> [i \in 1..n |-> ScrapedResult(page, found[i])],
                           sources |-> [i \in 1..n |-> ScrapedSource(page, found[i])]])

\* the response of EmbeddingProcessor.retrieve_knowledge over a table of m
\* chunks of one file
DocResponse(m) ==
    LET base_metadata == [source |-> "a.pdf", filename |-> "a.pdf", doc_id |-> 1]
        stored == ep_store_embeddings([i \in 1..m |-> Rep("c", 4)], base_metadata, TRUE)
    IN  ep_retrieve_knowledge(stored.items, "early", 5, {}, "scores")

InitMerge ==
    /\ LoopsIdle
    /\ summ = Idle
    /\ ddg = Idle
    /\ scraper = Idle
    /\ trunc = Idle
    /\ search = Idle
    /\ store = Idle
    /\ kb = Idle
    /\ sinks = Idle
    /\ cache = Idle
    /\ stream = Idle
    /\ \E strategy \in {"web", "documents", "hybrid"},
          web \in {Raise} \cup {Ok(WebResponse(n)) : n \in 0..MaxMerged},
          doc \in {Raise} \cup {Ok(DocResponse(m)) : m \in 0..MaxMerged} :
          merge = [pc |-> "act", strategy |-> strategy, web |-> web, doc |-> doc,
                   returned |-> EmptyDict]

\* node_act runs with the strategy THINK chose
MergeAct ==
    /\ merge.pc = "act"
    /\ merge' = [merge EXCEPT !.pc = "observe",
                              !.returned = node_act([query |-> Rep("q", 1),
                                                     search_strategy |-> merge.strategy,
                                                     steps |-> << >>],
                                                    merge.web, merge.doc)]
    /\ UNCHANGED <<uaVars, ragVars, webVars, scraper, trunc, search, store, kb, sinks, cache, stream, ddg, summ>>

(***************************************************************************)
(* tools/search/endpoints.py: search_duckduckgo and its lru_cache          *)
(***************************************************************************)
\* calls of search_duckduckgo in a run
MaxSearches == 2
\* maxsize of the lru_cache
LruMaxSize == 128

\* is_non_english_domain over a url or a title given as <<name, ending>>:
\* the endings and the site names of blocked_patterns
is_non_english_domain(url) ==
    url # << >> /\ (url[2] \in {"cn", "ru", "jp", "kr"}
                      \/ url[1] \in {"baidu", "weibo", "qq", "bilibili", "zhihu", "yandex", "naver"})

\* what DDGS().text answers: it raises, or it yields hits
DdgHits ==
    { [href |-> <<"a", "com">>, title |-> <<"A", "">>, body |-> "s"],
      [href |-> <<"b", "cn">>, title |-> <<"B", "">>, body |-> "s"],
      [href |-> << >>, title |-> <<"C", "">>, body |-> "s"] }

DdgAnswers ==
    {Raise} \cup {Ok(<< >>)} \cup {Ok(<<h>>) : h \in DdgHits}
      \cup {Ok(<<h, g>>) : h \in {x \in DdgHits : x.href # << >>}, g \in DdgHits}

\* the body of search_duckduckgo when the provider gives the answer: the
\* hits that are not filtered and have a link and a title, at most
\* max_results of them; the empty list when the provider raises. The
\* optimized query and the region only choose what the provider is asked
search_duckduckgo(query, max_results, answer) ==
    IF answer.kind = "raise" THEN << >>
    ELSE LET kept == SelectSeq(answer.response,
                               LAMBDA r : /\ ~(is_non_english_domain(r.href)
                                                 \/ is_non_english_domain(r.title))
                                          /\ r.href # << >> /\ r.title # << >>)
         IN  [i \in 1..(IF Len(kept) < max_results THEN Len(kept) ELSE max_results) |->
                 [link |-> kept[i].href, title |-> kept[i].title, text |-> <<kept[i].body>>]]

\* functools.lru_cache around search_duckduckgo: entries is the cache, the
\* least recently used entry first. A call with a stored key returns the
\* stored value and does not run the body; any value the body returns is
\* stored
lru_cache(entries, query, max_results, answer) ==
    LET key == <<query, max_results>>
        found == SelectSeq(entries, LAMBDA e : e.key = key)
        others == SelectSeq(entries, LAMBDA e : e.key # key)
        result == search_duckduckgo(query, max_results, answer)
        room == IF Len(others) >= LruMaxSize THEN Tail(others) ELSE others
    IN  IF found # << >>
        THEN [entries |-> Append(others, found[1]), contacted |-> FALSE, returned |-> found[1].value]
        ELSE [entries |-> Append(room, [key |-> key, value |-> result]), contacted |-> TRUE,
              returned |-> result]

InitDdg ==
    /\ LoopsIdle
    /\ summ = Idle
    /\ scraper = Idle
    /\ trunc = Idle
    /\ search = Idle
    /\ store = Idle
    /\ kb = Idle
    /\ sinks = Idle
    /\ cache = Idle
    /\ stream = Idle
    /\ merge = Idle
    /\ ddg = [pc |-> "serving", entries |-> << >>, log |-> << >>]

\* search_web calls search_duckduckgo(query, max_results); answer is what
\* the provider answers if it is asked now
DdgSearch ==
    /\ ddg.pc = "serving"
    /\ Len(ddg.log) < MaxSearches
    /\ \E query \in {"q1", "q2"}, max_results \in {1, 2}, answer \in DdgAnswers :
          LET call == lru_cache(ddg.entries, query, max_results, answer)
          IN  ddg' = [ddg EXCEPT !.entries = call.entries,
                                 !.log = Append(ddg.log,
                                                [query |-> query, max_results |-> max_results,
                                                 answer |-> answer,
                                                 contacted |-> call.contacted,
                                                 returned |-> call.returned])]
    /\ UNCHANGED <<uaVars, ragVars, webVars, scraper, trunc, search, store, kb, sinks, cache, stream, merge, summ>>

(***************************************************************************)
(* _summarize_with_map_reduce of huggingsmolagent/tools/summarizer.py and  *)
(* of rag/summarizer_processor.py, which have the same body                *)
(***************************************************************************)
\* the largest batch_size and the largest number of chunks of a call
MaxBatch == 2
MaxChunks == 4

\* [xs[i:i + batch_size] for i in range(0, len(xs), batch_size)]
Batches(xs, batch_size) ==
    [k \in 1..((Len(xs) + batch_size - 1) \div batch_size) |->
        SubSeq(xs, (k - 1) * batch_size + 1,
               IF k * batch_size < Len(xs) THEN k * batch_size ELSE Len(xs))]

\* the summary a chain makes of documents: it covers what they cover
Summary(documents) == [covers |-> UNION {documents[i].covers : i \in 1..Len(documents)}]

\* the map step over the chunks: one summary for each chunk whose chain
\* does not raise
map_step(docs, failed) ==
    LET done == SelectSeq([i \in 1..Len(docs) |-> i], LAMBDA i : i \notin failed)
    IN  [i \in 1..Len(done) |-> Summary(<<docs[done[i]]>>)]

\* one pass of the while loop: next_level holds one summary for each batch
\* whose chain does not raise
reduce_pass(all_summaries, batch_size, failed) ==
    LET batches == Batches(all_summaries, batch_size)
        done == SelectSeq([k \in 1..Len(batches) |-> k], LAMBDA k : k \notin failed)
    IN  [i \in 1..Len(done) |-> Summary(batches[done[i]])]

\* what the final combine returns
final_combine(all_summaries, ok) ==
    IF ok THEN Summary(all_summaries)
    ELSE IF all_summaries # << >> THEN all_summaries[1]
    ELSE [text |-> "Summary generation failed."]

InitSumm ==
    /\ LoopsIdle
    /\ scraper = Idle
    /\ trunc = Idle
    /\ search = Idle
    /\ store = Idle
    /\ kb = Idle
    /\ sinks = Idle
    /\ cache = Idle
    /\ stream = Idle
    /\ merge = Idle
    /\ ddg = Idle
    /\ \E batch_size \in 1..MaxBatch, chunks \in 0..MaxChunks :
          summ = [pc |-> "map", batch_size |-> batch_size,
                  docs |-> [i \in 1..chunks |-> [covers |-> {i}]],
                  all_summaries |-> << >>, last_pass |-> [from |-> 0, to |-> 0],
                  returned |-> EmptyDict]

\* the map step; without a summary the function returns
SummMap ==
    /\ summ.pc = "map"
    /\ \E failed \in SUBSET (1..Len(summ.docs)) :
          LET all_summaries == map_step(summ.docs, failed)
          IN  summ' = IF all_summaries = << >>
                      THEN [summ EXCEPT !.pc = "returned",
                                        !.returned = [text |-> "Unable to generate summary."]]
                      ELSE [summ EXCEPT !.pc = "reduce", !.all_summaries = all_summaries]
    /\ UNCHANGED <<uaVars, ragVars, webVars, scraper, trunc, search, store, kb, sinks, cache, stream, merge, ddg>>

\* one pass of while len(all_summaries) > batch_size
SummPass ==
    /\ summ.pc = "reduce"
    /\ Len(summ.all_summaries) > summ.batch_size
    /\ \E failed \in SUBSET (1..Len(Batches(summ.all_summaries, summ.batch_size))) :
          LET next_level == reduce_pass(summ.all_summaries, summ.batch_size, failed)
          IN  summ' = [summ EXCEPT !.all_summaries = next_level,
                                   !.last_pass = [from |-> Len(summ.all_summaries),
                                                  to |-> Len(next_level)]]
    /\ UNCHANGED <<uaVars, ragVars, webVars, scraper, trunc, search, store, kb, sinks, cache, stream, merge, ddg>>

\* the loop has ended: the final combine, and the return
SummFinal ==
    /\ summ.pc = "reduce"
    /\ ~(Len(summ.all_summaries) > summ.batch_size)
    /\ \E ok \in BOOLEAN :
          summ' = [summ EXCEPT !.pc = "returned",
                               !.returned = final_combine(summ.all_summaries, ok)]
    /\ UNCHANGED <<uaVars, ragVars, webVars, scraper, trunc, search, store, kb, sinks, cache, stream, merge, ddg>>

ToolInit == InitScraper \/ InitTruncate \/ InitSearch \/ InitStore \/ InitKb \/ InitSinks \/ InitStream \/ InitMerge \/ InitDdg \/ InitSumm

ToolNext ==
    \/ ScraperStart
    \/ ScraperAttempt
    \/ ScraperOrder
    \/ Truncate
    \/ SearchStart
    \/ SearchScrape
    \/ SearchReturn
    \/ UploadPdf
    \/ AskUpload
    \/ KbIndex
    \/ KbRetrieve
    \/ KbDelete
    \/ SinkSet
    \/ SinkEmitTest
    \/ SinkEmitCall
    \/ SinkClear
    \/ MergeAct
    \/ DdgSearch
    \/ SummMap
    \/ SummPass
    \/ SummFinal
    \/ StreamPut
    \/ StreamAgentFinish
    \/ StreamAgentExit
    \/ StreamTestFinished
    \/ StreamTestEmpty
    \/ StreamGet
    \/ StreamTimeout
    \/ StreamFinal

ToolSpec == ToolInit /\ [][ToolNext]_vars

\* the response generator and its agent thread alone. The thread and the
\* generator are scheduled again and again, and agent.run ends: it returns
\* or raises after max_steps steps at most
StreamNext ==
    \/ StreamPut
    \/ StreamAgentFinish
    \/ StreamAgentExit
    \/ StreamTestFinished
    \/ StreamTestEmpty
    \/ StreamGet
    \/ StreamTimeout
    \/ StreamFinal

StreamFairness ==
    /\ WF_vars(StreamAgentFinish)
    /\ WF_vars(StreamAgentExit)
    /\ WF_vars(StreamTestFinished)
    /\ WF_vars(StreamTestEmpty)
    /\ WF_vars(StreamGet)
    /\ WF_vars(StreamTimeout)
    /\ WF_vars(StreamFinal)

StreamSpec == InitStream /\ [][StreamNext]_vars /\ StreamFairness

(***************************************************************************)
(* The query cache                                                         *)
(***************************************************************************)
\* the queries of the calls and their keyword arguments
CacheQueries == { <<"T", "e", "s", "t">>, <<" ", "t", "e", "s", "t", " ">> }

CacheKwargs == {EmptyDict, [top_k |-> 5]}

\* the calls: the query is the first positional argument, or the keyword
\* argument 'query'
CacheCalls ==
    [fn : {"f", "g"}, args : {<<q>> : q \in CacheQueries}, kwargs : CacheKwargs]
      \cup [fn : {"f", "g"}, args : {<< >>}, kwargs : {[query |-> q] : q \in CacheQueries}]

InitCache ==
    /\ LoopsIdle
    /\ summ = Idle
    /\ ddg = Idle
    /\ merge = Idle
    /\ stream = Idle
    /\ scraper = Idle
    /\ trunc = Idle
    /\ search = Idle
    /\ store = Idle
    /\ kb = Idle
    /\ sinks = Idle
    /\ \E enabled \in BOOLEAN :
          cache = [pc |-> "serving", enabled |-> enabled, entries |-> << >>, hits |-> 0,
                   misses |-> 0, now |-> 0, epoch |-> 0, returned |-> EmptyDict, log |-> << >>]

\* a function decorated with cache_query_result is called
CacheCall ==
    /\ cache.pc = "serving"
    /\ Len(cache.log) < MaxCalls
    /\ \E call \in CacheCalls :
          LET after == wrapper(cache, call.fn, call.args, call.kwargs)
          IN  cache' = [after EXCEPT !.log =
                          Append(cache.log,
                                 [call |-> call, at |-> cache.now, epoch |-> cache.epoch,
                                  outcome |-> after.returned.outcome,
                                  result |-> after.returned.result,
                                  hits |-> after.hits - cache.hits,
                                  misses |-> after.misses - cache.misses])]
    /\ UNCHANGED <<uaVars, ragVars, webVars, scraper, trunc, search, store, kb, sinks, stream, merge, ddg, summ>>

\* time passes
CacheTick ==
    /\ cache.pc = "serving"
    /\ cache.now < MaxClock
    /\ cache' = [cache EXCEPT !.now = @ + 1]
    /\ UNCHANGED <<uaVars, ragVars, webVars, scraper, trunc, search, store, kb, sinks, stream, merge, ddg, summ>>

\* POST /cache/clear
CacheClear ==
    /\ cache.pc = "serving"
    /\ cache.epoch = 0
    /\ cache.log # << >>
    /\ cache' = clear_cache(cache)
    /\ UNCHANGED <<uaVars, ragVars, webVars, scraper, trunc, search, store, kb, sinks, stream, merge, ddg, summ>>

CacheNext == CacheCall \/ CacheTick \/ CacheClear

CacheSpec == InitCache /\ [][CacheNext]_vars

(***************************************************************************)
(* Properties                                                              *)
(***************************************************************************)
UaVerdict == Get(Get(uaState, "verification", EmptyDict), "verdict", "none")
UaIter == Get(uaState, "iter", 0)
UaMaxIter == Get(uaState, "max_iter", 1)
UaFailures == Get(uaState, "consecutive_failures", 0)
UaLastLength == Get(uaState, "last_context_length", 0)
UaContext == Get(uaState, "context", EmptyStr)
UaInsufficient == Strip(UaContext) = EmptyStr \/ StrLen(UaContext) < MinContextLength

\* C1: a run of the unified agent visits THINK at most max_iter + 1 times and
\* never ends in LangGraph's recursion error instead of FINALIZE.
C1_LoopTermination ==
    /\ uaPc # "idle" => uaVisits <= UaMaxIter + 1
    /\ uaPc # "raised"

\* C2: run_unified_agent never lets an exception out, and what it returns
\* has the keys answer, sources, verification, iterations and steps.
C2_AlwaysReturnsResult ==
    /\ uaPc # "raised"
    /\ uaPc = "returned" =>
          {"answer", "sources", "verification", "iterations", "steps"} \subseteq DOMAIN uaResult

\* the condition under which the loop goes back after VERIFY
RefineCondition ==
    /\ UaVerdict = "revise"
    /\ UaIter < UaMaxIter
    /\ UaFailures < 3

\* C3: after VERIFY the unified agent goes back to THINK if and only if the
\* verdict is 'revise', iter < max_iter and consecutive_failures < 3;
\* otherwise it goes to FINALIZE.
C3_TransitionDecision ==
    /\ uaPc = "finalize" => ~RefineCondition
    /\ (uaPc = "think" /\ uaVisits > 0) => RefineCondition

\* C3 witness: FINALIZE was forced by three consecutive failures although the
\* verdict is 'revise' and iter < max_iter.
C3_ForcedFinalize ==
    /\ uaPc = "finalize"
    /\ UaFailures >= 3
    /\ UaVerdict = "revise"
    /\ UaIter < UaMaxIter

\* C4: whenever the unified agent is back at THINK for another round, iter
\* counts the extra rounds and context, results and sources are cleared; the
\* 'iterations' it returns is the number of extra rounds taken.
C4_IterCountsRounds ==
    /\ (uaPc = "think" /\ uaVisits > 0) =>
          /\ UaIter = uaVisits
          /\ UaContext = EmptyStr
          /\ Get(uaState, "all_sources", << >>) = << >>
    /\ uaPc = "returned" => uaResult["iterations"] = uaVisits - 1

\* C5: in a round that follows a 'revise' verdict the working query handed
\* to the tools is the original query with the focus hint made of the
\* verifier's reasons, and the original query is a prefix of it.
C5_FocusHint ==
    (uaPc = "act" /\ uaVisits > 1) =>
        /\ uaState["working_query"] =
              ExpandQuery(uaState["query"],
                          Get(Get(uaState, "verification", EmptyDict), "reasons", JStr(EmptyStr)))
        /\ StartsWith(uaState["working_query"], uaState["query"])

\* a verifier text that is no well-formed 'revise' record
Malformed(text) ==
    \/ ~text.valid
    \/ ~IsDict(text.value)
    \/ Get(text.value.d, "verdict", "none") # "revise"

\* C6: when the verifier's text is not a well-formed verdict record,
\* answer_question succeeds with verdict 'pass' and the stripped draft.
C6_DefensiveDefault ==
    (/\ uaQa.called
     /\ uaQa.llm.draft.kind = "ok"
     /\ uaQa.llm.verify.kind = "ok"
     /\ Malformed(uaQa.llm.verify.text)) =>
        /\ uaQa.result.success
        /\ Get(Get(uaQa.result.metadata, "verification", EmptyDict), "verdict", "pass") = "pass"
        /\ uaQa.result.answer = Strip(uaQa.llm.draft.text)

\* C7: after an ACT of the hybrid strategy in which web_search returned, the
\* state holds the web results, sources and context, whatever happened to
\* the document tool.
C7_ToolFailureIsolated ==
    (/\ uaPc = "observe"
     /\ uaState["search_strategy"] = "hybrid"
     /\ uaEnv.web.kind = "ok") =>
        /\ uaState["web_results"] = uaEnv.web.response["results"]
        /\ SubSeq(uaState["all_sources"], 1, Len(uaEnv.web.response["sources"]))
              = uaEnv.web.response["sources"]
        /\ StartsWith(uaState["context"], Concat(WebLabel, uaEnv.web.response["context"]))

\* the final answer the claim selects from a verification record and a draft
SelectedAnswer(decision, draft) ==
    LET revised == Get(decision, "revised_answer", JNull)
    IN  IF /\ Get(decision, "verdict", "none") = "revise"
           /\ Truthy(revised)
           /\ Strip(PyStr(revised)) # EmptyStr
        THEN Strip(PyStr(revised))
        ELSE draft

FinalizedAs(state, decision) ==
    /\ state["final_answer"] = SelectedAnswer(decision, Get(state, "draft_answer", EmptyStr))
    /\ Get(state, "draft_answer", EmptyStr) # EmptyStr => state["final_answer"] # EmptyStr

\* C8: in all three loops FINALIZE takes the revised answer exactly when the
\* verdict is 'revise' and the revised answer is not blank, the draft
\* otherwise; a non-empty draft never gives an empty final answer.
C8_FinalizeSelection ==
    /\ uaPc = "end" => FinalizedAs(uaState, Get(uaState, "verification", EmptyDict))
    /\ ragPc = "end" => FinalizedAs(ragState, Get(ragState, "verification", EmptyDict))
    /\ webPc = "end" => FinalizedAs(webState, WebDecision(webState))

\* C9: no step of a run of the unified agent makes iter or
\* consecutive_failures smaller.
C9_CountersMonotonic ==
    [][uaPc # "idle" =>
          /\ Get(uaState', "iter", 0) >= UaIter
          /\ Get(uaState', "consecutive_failures", 0) >= UaFailures]_vars

\* C9 as amended: iter never gets smaller, and consecutive_failures gets
\* smaller only when OBSERVE resets it to 0 on a sufficient context whose
\* stripped length strictly increased.
C9_MonotonicButReset ==
    [][uaPc # "idle" =>
          /\ Get(uaState', "iter", 0) >= UaIter
          /\ \/ Get(uaState', "consecutive_failures", 0) >= UaFailures
             \/ /\ uaPc = "observe"
                /\ Get(uaState', "consecutive_failures", 0) = 0
                /\ ~UaInsufficient
                /\ StrLen(Strip(UaContext)) > UaLastLength]_vars

\* C9 witness: OBSERVE has reset a counter that an earlier OBSERVE had raised.
C9_ResetAfterFailure ==
    /\ uaPc = "synthesize"
    /\ UaFailures = 0
    /\ \E i \in 1..Len(uaState["steps"]) : uaState["steps"][i] = "OBSERVE: Insufficient context"

\* C10: OBSERVE adds one to consecutive_failures on an insufficient context,
\* resets it to 0 when the context length strictly increased, and records
\* the current context length.
C10_ObserveRule ==
    [][(uaPc = "observe" /\ uaPc' = "synthesize") =>
          /\ UaInsufficient => Get(uaState', "consecutive_failures", 0) = UaFailures + 1
          /\ StrLen(Strip(UaContext)) > UaLastLength =>
                Get(uaState', "consecutive_failures", 0) = 0
          /\ Get(uaState', "last_context_length", 0) = StrLen(Strip(UaContext))]_vars

\* C10 as amended: OBSERVE adds one on an insufficient context; on a
\* sufficient context it resets the counter to 0 when the stripped length
\* strictly increased and leaves it unchanged otherwise; it records the
\* stripped length of the current context.
C10_ObserveRuleSufficient ==
    [][(uaPc = "observe" /\ uaPc' = "synthesize") =>
          /\ Get(uaState', "consecutive_failures", 0) =
                IF UaInsufficient THEN UaFailures + 1
                ELSE IF StrLen(Strip(UaContext)) > UaLastLength THEN 0
                ELSE UaFailures
          /\ Get(uaState', "last_context_length", 0) = StrLen(Strip(UaContext))]_vars

\* C10 witness: OBSERVE has counted a failure on a context that is
\* insufficient although longer than the one recorded before.
C10_FailureOnLongerContext ==
    /\ uaPc = "synthesize"
    /\ uaVisits = 1
    /\ UaInsufficient
    /\ UaLastLength > 0
    /\ UaFailures = 1

\* C11: in every state of the unified agent and of the agentic RAG graph the
\* stored context has at most 16000 characters, and in every state of the web
\* search graph at most 12000, whatever the tools returned.
C11_ContextCap ==
    /\ StrLen(UaContext) <= ContextCap
    /\ StrLen(Get(ragState, "context", EmptyStr)) <= ContextCap
    /\ StrLen(Get(webState, "context", EmptyStr)) <= WebContextCap

\* C11 witness: the hybrid ACT merged a web block longer than the cap with a
\* document block, and the stored context has exactly the cap's length.
C11_MergedAtCap ==
    /\ uaPc = "observe"
    /\ uaState["search_strategy"] = "hybrid"
    /\ uaEnv.web.kind = "ok"
    /\ StrLen(uaEnv.web.response["context"]) > ContextCap
    /\ Len(uaState["doc_results"]) > 0
    /\ StrLen(UaContext) = ContextCap

\* the query of the run contains a recency cue, in any letter case
HasRecencyCue == \E w \in RecencyCues : ContainsWord(LowerChars(uaState["query"]), w)

\* C12: once THINK has run, the strategy is 'documents' when files were
\* supplied and the query has no recency cue, 'hybrid' when files were
\* supplied and it has one, 'web' when no files were supplied; it is so in
\* every later state of the run, and THINK leaves the working query equal to
\* the original query.
C12_StrategyClassification ==
    uaVisits > 0 =>
        /\ (uaState["has_files"] /\ ~HasRecencyCue) => uaState["search_strategy"] = "documents"
        /\ (uaState["has_files"] /\ HasRecencyCue) => uaState["search_strategy"] = "hybrid"
        /\ ~uaState["has_files"] => uaState["search_strategy"] = "web"
        /\ uaPc = "act" => uaState["working_query"] = uaState["query"]

\* C12 witness: the second round of a run with files and the query
\* 'Latest docs' acts under the hybrid strategy.
C12_HybridInSecondRound ==
    /\ uaPc = "act"
    /\ uaVisits = 2
    /\ uaState["has_files"]
    /\ HasRecencyCue
    /\ uaState["search_strategy"] = "hybrid"

\* a context that is empty or all whitespace
Blank(context) == Strip(context) = EmptyStr

\* C13: in all three loops, when SYNTHESIZE has run on an empty or blank
\* context the draft is the fixed 'no relevant information found' answer and
\* no call of the model was made for it.
C13_SynthesizeShortCircuit ==
    /\ (uaPc = "verify" /\ Blank(UaContext)) =>
          /\ uaState["draft_answer"] = NoInfoAnswer
          /\ ~uaQa.called
    /\ (ragPc = "verify" /\ Blank(Get(ragState, "context", EmptyStr))) =>
          ragState["draft_answer"] = RagNoInfoAnswer
    /\ (webPc = "verify" /\ Blank(Get(webState, "context", EmptyStr))) =>
          webState["draft_answer"] \in {NoInfoAnswer, RagNoInfoAnswer}

(***************************************************************************)
(* Properties of the scraping tools                                        *)
(***************************************************************************)
\* a call of webscraper is under way or over
ScraperCalled == scraper.pc # "idle" /\ scraper.op = "webscraper"

\* an attempt that gave a text
Succeeded(a) == a.outcome.kind = "ok" /\ a.outcome.value # EmptyStr

\* the attempts that ended in an error
RaisedAttempts == {i \in 1..Len(scraper.trace) : scraper.trace[i].outcome.kind = "raise"}

\* C14: webscraper never raises, and when it returns after every strategy it
\* attempted failed (raised or gave no text) the result has scraping_method
\* 'failed' and a non-empty error that is the message of the last error.
C14_FallbackExhaustion ==
    ScraperCalled =>
        /\ scraper.pc # "raised"
        /\ (/\ scraper.pc = "returned"
            /\ \A i \in 1..Len(scraper.trace) : ~Succeeded(scraper.trace[i])) =>
              /\ scraper.result.scraping_method = "failed"
              /\ scraper.result.error # << >>
              /\ \A i \in RaisedAttempts :
                    (\A j \in RaisedAttempts : j <= i) =>
                        scraper.result.error = scraper.trace[i].outcome.error.msg

\* the place of a strategy in the order webscraper goes through
Place(method) == CHOOSE k \in 1..Len(scraper.methods) : scraper.methods[k] = method

\* C15: the strategies are attempted in the selected order, one starts only
\* after the one before it failed (raised or gave no text), none is
\* attempted after one succeeded, and the scraping_method returned names the
\* strategy that succeeded.
C15_OrderedFallback ==
    ScraperCalled =>
        LET trace == scraper.trace
        IN  /\ trace # << >> => Place(trace[1].method) = 1
            /\ \A i \in 1..(Len(trace) - 1) :
                  /\ ~Succeeded(trace[i])
                  /\ Place(trace[i + 1].method) \in {Place(trace[i].method), Place(trace[i].method) + 1}
            /\ (scraper.pc = "returned" /\ scraper.result.scraping_method # "failed") =>
                  /\ Succeeded(trace[Len(trace)])
                  /\ scraper.result.scraping_method = trace[Len(trace)].method

\* the url's domain has one of the keywords the implementation knows as
\* JavaScript-heavy
KnownJsDomain ==
    LET parts == Split(scraper.url, "/")
    IN  /\ Len(parts) >= 3
        /\ AnyIn(IF scraper.impl = "tools" THEN JsHeavyDomains
                 ELSE HfDomains.js_heavy \cup HfDomains.flight \cup HfDomains.blocking,
                 Lower(parts[3]))

\* C16: the ordering function always returns a permutation of firecrawl,
\* beautifulsoup and selenium; a named prefer_method is first; with 'auto',
\* selenium is first for a known JavaScript-heavy domain, firecrawl is first
\* when an extraction_prompt is supplied, beautifulsoup is first otherwise.
C16_SelectionPolicy ==
    (scraper.pc \notin {"idle", "start"} /\ scraper.op = "order") =>
        /\ scraper.pc = "returned"
        /\ Len(scraper.methods) = 3
        /\ {scraper.methods[k] : k \in 1..3} = {"firecrawl", "beautifulsoup", "selenium"}
        /\ scraper.prefer_method \in {"firecrawl", "beautifulsoup", "selenium"} =>
              scraper.methods[1] = scraper.prefer_method
        /\ scraper.prefer_method = "auto" =>
              /\ KnownJsDomain => scraper.methods[1] = "selenium"
              /\ scraper.extraction_prompt # "" => scraper.methods[1] = "firecrawl"
              /\ (~KnownJsDomain /\ scraper.extraction_prompt = "") =>
                    scraper.methods[1] = "beautifulsoup"

\* the transient errors: timeout, connection reset
TransientErrors == {ScrapeErrors.timeout, ScrapeErrors.reset}

\* C17: a strategy makes at most 3 attempts in a call of webscraper, and an
\* attempt after the first follows an attempt of the same strategy that
\* ended in a transient error.
C17_RetryPolicy ==
    ScraperCalled =>
        \A i \in 1..Len(scraper.trace) :
            /\ scraper.trace[i].attempt <= 3
            /\ scraper.trace[i].attempt > 1 =>
                  /\ scraper.trace[i - 1].method = scraper.trace[i].method
                  /\ scraper.trace[i - 1].outcome.kind = "raise"
                  /\ scraper.trace[i - 1].outcome.error \in TransientErrors

\* the character of s at the 0-based index i
CharAt(s, i) == Expand(s)[i + 1]

\* C18: truncate_content returns a text no longer than max_length unchanged;
\* otherwise its output has at most max_length + 3 characters and ends with
\* '...', and when the first max_length characters have a space in their
\* last 20% (from index 0.8 * max_length on) the output is a prefix of the
\* text that does not end inside a word, followed by '...'.
C18_TruncationBoundary ==
    trunc.pc = "returned" =>
        LET content == trunc.content
            max_length == trunc.max_length
            out == trunc.result
            cut == StrLen(out) - 3
        IN  /\ StrLen(content) <= max_length => out = content
            /\ StrLen(content) > max_length =>
                  /\ StrLen(out) <= max_length + 3
                  /\ out = Concat(Take(content, cut), Rep(".", 3))
                  /\ (\E i \in 0..(max_length - 1) :
                         5 * i >= 4 * max_length /\ CharAt(content, i) = " ") =>
                        \/ cut = 0
                        \/ CharAt(content, cut - 1) = " "
                        \/ CharAt(content, cut) = " "

\* the call of web_search has returned from its loop
SearchReturned == search.pc = "returned" /\ "context" \in DOMAIN search.result

\* the indices of ixs are increasing
Increasing(ixs) == \A i, j \in 1..Len(ixs) : i < j => ixs[i] < ixs[j]

\* C19: web_search calls webscraper for at most the first 5 search results,
\* in their order; at every moment of the call, and in what it returns (the
\* error result included), results and sources have the same length, at
\* most 5, and the same urls and titles entry by entry; the returned context
\* is the concatenation over k of the block labelled "Source [k]" carrying
\* the title and content of results[k-1].
C19_SearchAlignment ==
    search.pc # "idle" =>
        /\ Len(search.scraped) <= ScrapeLimit
        /\ Increasing(search.scraped)
        /\ \A i \in 1..Len(search.scraped) : search.scraped[i] = i
        /\ Len(search.scraped_results) = Len(search.sources)
        /\ Len(search.scraped_results) <= ScrapeLimit
        /\ \A k \in 1..Len(search.scraped_results) :
              /\ search.scraped_results[k].url = search.sources[k].url
              /\ search.scraped_results[k].title = search.sources[k].title
              /\ search.sources[k].snippet
                   = Concat(Take(search.scraped_results[k].content, SnippetLength), Rep(".", 3))
        /\ search.pc = "returned" =>
              /\ Len(search.result.results) = Len(search.result.sources)
              /\ Len(search.result.results) <= ScrapeLimit
              /\ \A k \in 1..Len(search.result.results) :
                    search.result.results[k].url = search.result.sources[k].url
              /\ SearchReturned =>
                    search.result.context
                      = Join(EmptyStr,
                             [k \in 1..Len(search.result.results) |->
                                Join(EmptyStr,
                                     <<FromChars(<<"S", "o", "u", "r", "c", "e", " ", "[">>),
                                       Rep(ToString(k), 1), FromChars(<<"]", ":", " ">>),
                                       search.result.results[k].title, Rep(NL, 1),
                                       search.result.results[k].content,
                                       Rep(NL, 2), Rep("-", 10), Rep(NL, 2)>>)])

\* web_search returned after six search results of which the first was
\* skipped and later ones were scraped, so that the labels of the context
\* differ from the ranks of the search results
C19_SixResultsOneSkipped ==
    /\ SearchReturned
    /\ Len(search.search_results) = MaxSearchResults
    /\ Len(search.result.results) >= 2
    /\ search.result.results[1].url # search.search_results[1].link

\* C20: when the same bytes are uploaded twice in sequence, under any
\* filenames, the second upload is answered with reused = true and the
\* doc_id of the first, and the table holds as many chunks after the second
\* upload as after the first.
C20_IdempotentIngestion ==
    store.pc # "idle" =>
        \A i \in 1..Len(store.log) - 1 :
            store.log[i].content = store.log[i + 1].content =>
                /\ store.log[i + 1].reused
                /\ store.log[i + 1].doc_id = store.log[i].doc_id
                /\ store.log[i + 1].total = store.log[i].total

\* C21: in every reachable state of the documents table, all the chunks
\* stored with one file_hash carry one and the same doc_id, whatever the
\* order in which the uploads of several requests reach the table.
C21_OneDocIdPerHash ==
    store.pc # "idle" =>
        \A i, j \in 1..Len(store.rows) :
            store.rows[i].file_hash = store.rows[j].file_hash =>
                store.rows[i].doc_id = store.rows[j].doc_id

\* the chunk_index values stored for a doc_id in the documents table
ChunkIndexes(rows, doc_id) == {rows[i].chunk_index : i \in RowsOfDoc(rows, doc_id)}

\* C22: the chunk_index values of the chunks stored for a doc_id are exactly
\* 0..N-1, N being the number of chunks stored for it, with no gap and no
\* duplicate, also when chunks are dropped as empty after sanitization.
C22_ChunkIndexesContiguous ==
    store.pc # "idle" =>
        \A d \in 1..store.uuids :
            LET n == Cardinality(RowsOfDoc(store.rows, d))
            IN  /\ ChunkIndexes(store.rows, d) = 0..(n - 1)
                /\ Cardinality(ChunkIndexes(store.rows, d)) = n

\* the scraping_method webscraper answered for the page of a listed result
MethodOf(result) ==
    LET i == CHOOSE i \in 1..Len(search.search_results) :
                 search.search_results[i].link = result.url
        call == CHOOSE j \in 1..Len(search.scraped) : search.scraped[j] = i
    IN  search.methods[call]

\* C35: web_search lists a page in results and sources, and gives it a block
\* of the context, only if scraping the page succeeded: no listed page is one
\* for which webscraper answered scraping_method 'failed'.
C35_OnlyScrapedPages ==
    search.pc # "idle" =>
        /\ \A k \in 1..Len(search.scraped_results) :
              MethodOf(search.scraped_results[k]) # "failed"
        /\ \A k \in 1..Len(search.sources) : MethodOf(search.sources[k]) # "failed"
        /\ SearchReturned =>
              /\ \A k \in 1..Len(search.result.results) :
                    MethodOf(search.result.results[k]) # "failed"
              /\ search.result.context = web_search_context(search.result.results, 0)

(***************************************************************************)
(* Properties of the knowledge base                                        *)
(***************************************************************************)
\* retrieve_knowledge has returned
Retrieved == kb.pc = "ready" /\ kb.last.op = "retrieve"

\* occurrences of the character c in the text s
CountChar(s, c) ==
    LET runs == {i \in 1..Len(s) : s[i][1] = c}
        RECURSIVE Sum(_)
        Sum(S) == IF S = {} THEN 0 ELSE LET i == CHOOSE i \in S : TRUE IN s[i][2] + Sum(S \ {i})
    IN  Sum(runs)

\* C23: retrieve_knowledge(query, top_k = k) returns at most k results, at
\* most k sources and a context of at most k blocks "Source [..]", with and
\* without a doc_id or file_ids filter, after the search of 3 * k
\* candidates and after the search without scores.
C23_TopKBound ==
    Retrieved =>
        /\ Len(kb.last.result.results) <= kb.last.top_k
        /\ Len(kb.last.result.sources) <= kb.last.top_k
        /\ CountChar(kb.last.result.context, "[") <= kb.last.top_k

\* a retrieval by doc_id over a table that holds more chunks of the doc_id
\* than top_k, answered without scores with top_k results
C23_MoreChunksThanTopK ==
    /\ Retrieved
    /\ kb.impl = "vs"
    /\ kb.last.doc_id # 0
    /\ kb.last.how = "fallback"
    /\ Cardinality(RowsOfDoc(kb.table, kb.last.doc_id)) > kb.last.top_k
    /\ Len(kb.last.result.results) = kb.last.top_k
    /\ CountChar(kb.last.result.context, "[") = kb.last.top_k

\* C24: when a doc_id filter is given, every result and every source
\* returned belongs to that doc_id, whatever the similarity of the chunks
\* of other documents, and the score reported with a chunk is the score
\* that was computed for that chunk.
C24_DocIdFilter ==
    (Retrieved /\ kb.last.doc_id # 0) =>
        /\ \A i \in 1..Len(kb.last.result.results) :
              LET r == kb.last.result.results[i]
              IN  /\ r.metadata.doc_id = kb.last.doc_id
                  /\ kb.last.how = "scores" =>
                        \E j \in 1..Len(kb.table) :
                            /\ Metadata(kb.table[j]) = r.metadata
                            /\ r.score = IF kb.impl = "vs"
                                         THEN Similarity(kb.last.query, kb.table[j])
                                         ELSE 100 - Similarity(kb.last.query, kb.table[j])
        /\ \A i \in 1..Len(kb.last.result.sources) :
              /\ kb.last.result.sources[i].id = kb.last.doc_id
              /\ kb.last.result.sources[i].score = kb.last.result.results[i].score
              /\ kb.last.result.sources[i].chunk_index
                   = kb.last.result.results[i].metadata.chunk_index

\* a retrieval by doc_id with scores that returned a chunk although a chunk
\* of another document is more similar to the query
C24_OtherDocumentMoreSimilar ==
    /\ Retrieved
    /\ kb.last.doc_id # 0
    /\ kb.last.how = "scores"
    /\ kb.last.result.results # << >>
    /\ \E j \in 1..Len(kb.table) :
          /\ kb.table[j].doc_id # kb.last.doc_id
          /\ Similarity(kb.last.query, kb.table[j])
               > Similarity(kb.last.query, kb.table[1])
          /\ kb.last.result.results[1].metadata = Metadata(kb.table[1])

\* delete_document_by_doc_id has returned
Deleted == kb.pc = "ready" /\ kb.last.op = "delete"

\* the rows of a table that do not belong to the doc_id, in their order
RowsOfOthers(rows, doc_id) == SelectSeq(rows, LAMBDA r : r.doc_id # doc_id)

C26_EmptyStoreCondition ==
    (Retrieved /\ kb.last.how # "error") =>
        (("error" \in DOMAIN kb.last.result) <=> (kb.table = << >>))

(***************************************************************************)
(* Properties of the step callback                                         *)
(***************************************************************************)
\* C27: a run of the unified agent with a step callback installed, be it
\* one whose call fails, goes through the states of the run without
\* callback and returns its result: it is never ended by the exception of
\* the callback.
C27_SinkNonInterference ==
    uaSink # "none" => ~(uaPc = "raised" /\ uaResult = SinkFailure)

\* C28: when two runs of run_unified_agent_streaming are active at the same
\* time, a callback receives the steps of its own run only, and a run that
\* returned has had each of its steps delivered to its callback, in order,
\* whenever the other run ended.
C28_NoCrossDelivery ==
    sinks.pc # "idle" =>
        \A i \in StreamingRuns :
            /\ \A k \in 1..Len(sinks.delivered[i]) : sinks.delivered[i][k].run = i
            /\ sinks.runs[i].pc = "returned" =>
                  sinks.delivered[i] = [k \in 1..StepsPerRun |-> [run |-> i, step |-> k]]

(***************************************************************************)
(* Properties of the query cache                                           *)
(***************************************************************************)
\* the query of a call, and its keyword arguments other than the query
CallQuery(call) == IF call.args # << >> THEN call.args[1] ELSE call.kwargs.query

CallParams(call) == [key \in DOMAIN call.kwargs \ {"query"} |-> call.kwargs[key]]

\* two calls of the same function with the same query, case and surrounding
\* white space ignored, and the same keyword arguments
SameCall(a, b) ==
    /\ a.fn = b.fn
    /\ Strip(FromChars(Lower(CallQuery(a)))) = Strip(FromChars(Lower(CallQuery(b))))
    /\ CallParams(a) = CallParams(b)

\* C29: with caching enabled, the first call of a cached function for a
\* query executes the function and counts one miss; the next call of the
\* function with the same query and keyword arguments, made before the TTL
\* has passed and with no clear_cache in between, returns the stored result
\* without executing the function and counts one hit.
C29_HitOnRepeat ==
    (cache.pc # "idle" /\ cache.enabled) =>
        \A i \in 1..Len(cache.log) :
            LET first == \A h \in 1..(i - 1) : ~SameCall(cache.log[h].call, cache.log[i].call)
                second == \E h \in 1..(i - 1) :
                             /\ SameCall(cache.log[h].call, cache.log[i].call)
                             /\ \A g \in 1..(h - 1) :
                                   ~SameCall(cache.log[g].call, cache.log[i].call)
                             /\ \A g \in (h + 1)..(i - 1) :
                                   ~SameCall(cache.log[g].call, cache.log[i].call)
                             /\ cache.log[h].epoch = cache.log[i].epoch
                             /\ cache.log[i].at < cache.log[h].at + CacheTtl
                             /\ cache.log[i].result # cache.log[h].result
                                  \/ cache.log[i].outcome # "cached"
                                  \/ cache.log[i].hits # 1
            IN  /\ first => (cache.log[i].outcome = "executed" /\ cache.log[i].misses = 1)
                /\ ~second

\* the call a cached result was computed for
ComputedFor(result) == [fn |-> result.by, args |-> result.args, kwargs |-> result.kwargs]

\* C38: a call is served from an entry of query_cache only if the entry was
\* stored by a call of the same decorated function with the same normalized
\* query and equal other arguments; calls that differ in the function or in
\* an argument never receive each other's cached result.
C38_KeySeparation ==
    (cache.pc # "idle" /\ cache.enabled) =>
        \A i \in 1..Len(cache.log) :
            cache.log[i].outcome = "cached"
              => SameCall(ComputedFor(cache.log[i].result), cache.log[i].call)

(***************************************************************************)
(* Properties of the stream of steps                                       *)
(***************************************************************************)
\* the steps of a sequence of events, in the order they were sent
RECURSIVE StepsOf(_)
StepsOf(events) ==
    IF events = << >> THEN << >> ELSE events[1].steps \o StepsOf(Tail(events))

\* the events that end a response
Terminal(event) == event.response # "null" \/ "error" \in DOMAIN event

\* C30: the steps sent to the client are at every moment the first steps the
\* agent thread has put on step_queue, in the order they were put, each
\* once; the final response or the error is the last event, and when it is
\* sent every step put on the queue has been sent before it.
C30_StepHandOff ==
    stream.pc # "idle" =>
        /\ Len(StepsOf(stream.sent)) <= Len(stream.put)
        /\ StepsOf(stream.sent) = SubSeq(stream.put, 1, Len(StepsOf(stream.sent)))
        /\ \A i \in 1..Len(stream.sent) :
              Terminal(stream.sent[i]) =>
                  /\ i = Len(stream.sent)
                  /\ StepsOf(SubSeq(stream.sent, 1, i - 1)) = stream.put

\* the agent finished with steps still queued, and the response has ended
C30_FinishedWhileQueued ==
    /\ stream.pc # "idle"
    /\ stream.gen = "done"
    /\ stream.queued_at_finish
    /\ Len(stream.put) >= 2

\* the events of a response that end it
TerminalEvents(events) == SelectSeq(events, Terminal)

\* the terminal event of a run: the final response when agent.run returned,
\* an error and no response when it raised
ExpectedTerminal(event, outcome) ==
    IF outcome = "error"
    THEN "error" \in DOMAIN event /\ event.response = "null"
    ELSE "error" \notin DOMAIN event /\ event.response # "null"

\* C31: agent_finished is eventually set, whether agent.run returns or
\* raises; the generator then leaves its loop with the queue drained, and
\* the response ends with exactly one terminal event: the final response
\* when the agent returned, an error event without a response when it raised.
C31_StreamingLiveness ==
    /\ [](Len(TerminalEvents(stream.sent)) <= 1)
    /\ <>(stream.finished)
    /\ <>[](/\ stream.gen = "done"
            /\ stream.queue = << >>
            /\ Len(TerminalEvents(stream.sent)) = 1
            /\ ExpectedTerminal(TerminalEvents(stream.sent)[1], stream.outcome))

\* the agent raised after it had put steps, and the response has ended
C31_ErrorAfterSteps ==
    /\ stream.pc # "idle"
    /\ stream.gen = "done"
    /\ stream.outcome = "error"
    /\ Len(stream.put) >= 1

(***************************************************************************)
(* Properties of the refinement loops                                      *)
(***************************************************************************)
\* the steps of a trace that are among the given ones
CountSteps(steps, labels) == Len(SelectSeq(steps, LAMBDA step : step \in labels))

RefineSteps ==
    {"Refine: expanded query and will re-retrieve", "Refine: produced a revised draft"}

VerifySteps == {"Verify: verdict=pass", "Verify: verdict=revise"}

\* iter is 0 at the start, is the number of refine steps and is at most
\* max_refine; verify is visited max_refine + 1 times at most
RefinementBounded(pc, state, max_refine) ==
    pc # "idle" =>
        /\ pc = "plan" => state["iter"] = 0
        /\ Get(state, "iter", 0) = CountSteps(Get(state, "steps", << >>), RefineSteps)
        /\ Get(state, "iter", 0) <= max_refine
        /\ CountSteps(Get(state, "steps", << >>), VerifySteps) <= max_refine + 1

\* a step of a graph adds one to iter when it is a refine step, and leaves
\* iter alone otherwise
IterStep(pc, state, nextpc, nextstate) ==
    Get(nextstate, "iter", 0) =
        Get(state, "iter", 0) + (IF pc = "refine" /\ nextpc # "raised" THEN 1 ELSE 0)

C34_TraceStreamAgreement ==
    (uaSink # "none" /\ uaPc = "returned") => uaDelivered = uaResult.steps

(***************************************************************************)
(* Properties of the merged context                                        *)
(***************************************************************************)
\* the citation markers '[i]' of a text, in the order they appear;
\* a text is kept as its runs of equal characters: a marker is a run of one
\* '[', a run of one character and a run of one ']'
Markers(text) ==
    LET at == SelectSeq([p \in 1..(Len(text) - 2) |-> p],
                        LAMBDA p : /\ text[p] = <<"[", 1>>
                                   /\ text[p + 1][2] = 1
                                   /\ text[p + 2][1] = "]")
    IN  [k \in 1..Len(at) |-> text[at[k] + 1][1]]

\* the sources of a response that was returned
SourcesOf(called, outcome) ==
    IF called /\ outcome.kind = "ok" THEN Get(outcome.response, "sources", << >>) ELSE << >>

\* C36: in what ACT returns, the web sources come before the document
\* sources in all_sources, and the citation markers of the context are
\* [1], [2], ... in the order of all_sources, one marker for each entry: a
\* marker [i] stands for all_sources[i-1] and for no other entry, also when
\* both tools contribute a block.
C36_CitationAlignment ==
    merge.pc = "observe" =>
        /\ merge.returned.all_sources
             = SourcesOf(merge.strategy \in {"web", "hybrid"}, merge.web)
                 \o SourcesOf(merge.strategy \in {"documents", "hybrid"}, merge.doc)
        /\ Markers(merge.returned.context)
             = [i \in 1..Len(merge.returned.all_sources) |-> ToString(i)]

(***************************************************************************)
(* Properties of the verification record                                   *)
(***************************************************************************)
\* the last of the steps of a trace that are among the given ones
LastStep(steps, labels) ==
    LET found == SelectSeq(steps, LAMBDA step : step \in labels)
    IN  IF found = << >> THEN "none" ELSE found[Len(found)]

\* the steps of SYNTHESIZE, and those that write no verification record
SynthesizeSteps ==
    {"SYNTHESIZE: No context", "SYNTHESIZE failed",
     "SYNTHESIZE: Response generated via QAProcessor",
     "Synthesize: no context, empty draft",
     "Synthesize: drafted answer from retrieved context"}

SynthesizeWithoutRecord ==
    {"SYNTHESIZE: No context", "SYNTHESIZE failed", "Synthesize: no context, empty draft"}

\* the SYNTHESIZE of the current round wrote no verification record
NoRecord(state) ==
    LastStep(Get(state, "steps", << >>), SynthesizeSteps) \in SynthesizeWithoutRecord

\* C33: a round whose SYNTHESIZE short-circuited or failed is not routed
\* back into the loop by the verdict of an earlier round, and its final
\* answer is its draft, not the revised answer of an earlier round.
C33_FreshVerification ==
    /\ (uaPc = "think" /\ uaVisits > 0) => ~NoRecord(uaState)
    /\ (uaPc = "end" /\ NoRecord(uaState)) => uaState["final_answer"] = uaState["draft_answer"]
    /\ ragPc = "refine" => ~NoRecord(ragState)
    /\ (ragPc = "end" /\ NoRecord(ragState)) => ragState["final_answer"] = ragState["draft_answer"]

(***************************************************************************)
(* Properties of the retrieval of one document                             *)
(***************************************************************************)
\* C37: retrieve_knowledge(query, top_k=k, doc_id=d) of vector_store.py, when
\* the search with scores answers, returns min(k, number of stored chunks of
\* d) results, however many chunks of other documents rank higher.
C37_FilterCompleteness ==
    (kb.pc = "ready" /\ kb.impl = "vs" /\ kb.last.op = "retrieve"
       /\ kb.last.doc_id # 0 /\ kb.last.how = "scores")
    => LET stored == Cardinality(RowsOfDoc(kb.table, kb.last.doc_id))
       IN  Len(kb.last.result.results)
             = IF kb.last.top_k < stored THEN kb.last.top_k ELSE stored

(***************************************************************************)
(* Properties of the cached search                                         *)
(***************************************************************************)
\* C39: after a call of search_duckduckgo(query, max_results) that ended
\* with a provider error and returned the empty list, a later call with the
\* same arguments contacts the provider again.
C39_FailuresNotCached ==
    ddg.pc = "serving" =>
        \A i \in 1..Len(ddg.log) : \A j \in (i + 1)..Len(ddg.log) :
            (/\ ddg.log[i].contacted
             /\ ddg.log[i].answer = Raise
             /\ ddg.log[j].query = ddg.log[i].query
             /\ ddg.log[j].max_results = ddg.log[i].max_results)
            => ddg.log[j].contacted

(***************************************************************************)
(* Properties of the hierarchical reduction                                *)
(***************************************************************************)
\* C40: for every batch_size >= 1 and every number of chunk summaries, each
\* pass of the reduction loop strictly decreases the number of summaries,
\* and the final combine runs over at most batch_size summaries.
C40_ReductionTerminates ==
    /\ (summ.pc # "idle" /\ summ.last_pass.from > 0)
         => summ.last_pass.to < summ.last_pass.from
    /\ (summ.pc = "returned" /\ summ.all_summaries # << >>)
         => Len(summ.all_summaries) <= summ.batch_size

=============================================================================
